---- MODULE Spec2Model ----
(***************************************************************************)
(* Model of the JSON serialization of lila (Siren hypermedia library):     *)
(* the domain constructors of lila.core, the JSONMarshaler / JSONParser    *)
(* facades and the per-component marshalers / parsers of                   *)
(* lila.serialization.json.                                                *)
(*                                                                         *)
(* Python values are tagged records (field k is the tag).  An operation    *)
(* returns an outcome: Ok(value) or Err(exception class, message).         *)
(***************************************************************************)
EXTENDS Integers, Sequences, FiniteSets, TLC

VARIABLES op, arg, orig, wire, out, calls, facade, after, frames, instances

vars == <<op, arg, orig, wire, out, calls, facade, after, frames, instances>>

(***************************************************************************)
(* Bounds of the explored inputs.                                          *)
(***************************************************************************)
\* longest nested collection (fields, links, actions, entities) explored
MaxItems == 2
\* deepest nesting of embedded representations explored
MaxDepth == 1

(***************************************************************************)
(* Python values.                                                          *)
(***************************************************************************)
None == [k |-> "none"]
Str(s) == [k |-> "str", s |-> s]
PInt(n) == [k |-> "int", n |-> n]
PList(items) == [k |-> "list", items |-> items]
PTuple(items) == [k |-> "tuple", items |-> items]
\* a JSON object / a dict with string keys: m is a function on its keys
PDict(m) == [k |-> "dict", m |-> m]
\* a dict given by its items in insertion order, keys of any kind
PyDict(pairs) == [k |-> "pydict", pairs |-> pairs]
\* object(): no attribute of interest, not iterable, not JSON serializable
Opaque == [k |-> "object"]
\* a member of an enumeration: its class, its name and its value
Member(cls, name, value) == [k |-> "enum", cls |-> cls, name |-> name, s |-> value]
\* an instance with readable attributes (a domain object or a stand-in)
Obj(cls, attrs) == [k |-> "obj", cls |-> cls, attrs |-> attrs]

EmptyMap == [x \in {} |-> None]

Ok(v) == [ok |-> TRUE, exc |-> "", msg |-> "", val |-> v]
Err(exc, msg) == [ok |-> FALSE, exc |-> exc, msg |-> msg, val |-> None]

\* "except X as error: raise ValueError(msg) from error"
ValueError(msg) == Err("ValueError", msg)

Range(s) == {s[i] : i \in DOMAIN s}

\* index of the first element of a sequence of outcomes that failed, or 0
FirstFailure(outs) ==
    IF \E i \in DOMAIN outs : ~outs[i].ok
    THEN CHOOSE i \in DOMAIN outs : ~outs[i].ok /\ \A j \in 1..(i - 1) : outs[j].ok
    ELSE 0

Vals(outs) == [i \in DOMAIN outs |-> outs[i].val]

\* the outcomes of the iterations of a loop, as a sequence
Each(outs) == outs \o <<>>

(***************************************************************************)
(* lila.core.field.InputType and lila.core.action.Method                   *)
(***************************************************************************)
InputTypeNames ==
    [HIDDEN |-> "hidden", TEXT |-> "text", SEARCH |-> "search", PHONE |-> "tel",
     URL |-> "url", EMAIL |-> "email", PASSWORD |-> "password",
     DATETIME |-> "datetime", DATE |-> "date", MONTH |-> "month", WEEK |-> "week",
     TIME |-> "time", DATETIME_LOCAL |-> "datetime-local", NUMBER |-> "number",
     RANGE |-> "range", COLOR |-> "color", CHECKBOX |-> "ratio", FILE |-> "file",
     SUBMIT |-> "submit", IMAGE |-> "image", RESET |-> "reset", BUTTON |-> "button"]

InputTypeMember(name) == Member("InputType", name, InputTypeNames[name])

InputTypeValues == {InputTypeNames[n] : n \in DOMAIN InputTypeNames}

\* a lookup that takes a value it does not know for TEXT
InputType_lenient(value) ==
    IF value.k = "enum" /\ value.cls = "InputType" THEN Ok(value)
    ELSE IF value.k = "str" /\ value.s \in InputTypeValues
    THEN Ok(InputTypeMember(CHOOSE n \in DOMAIN InputTypeNames : InputTypeNames[n] = value.s))
    ELSE Ok(InputTypeMember("TEXT"))

\* InputType(value): the member with that value, else ValueError
InputType(value) ==
    IF value.k = "enum" /\ value.cls = "InputType" THEN Ok(value)
    ELSE IF value.k = "str" /\ value.s \in InputTypeValues
    THEN Ok(InputTypeMember(CHOOSE n \in DOMAIN InputTypeNames : InputTypeNames[n] = value.s))
    ELSE ValueError("is not a valid InputType")

\* isinstance(value, InputType)
IsInputType(value) == value.k = "enum" /\ value.cls = "InputType"

\* Action._SUPPORTED_METHODS; the values of the members of Method
SUPPORTED_METHODS == {"GET", "PUT", "POST", "DELETE", "PATCH"}

\* a member of Method: name and value coincide
MethodMember(value) == Member("Method", value, value)

\* isinstance(value, Method)
IsMethod(value) == value.k = "enum" /\ value.cls = "Method"

\* Method(value): the member with that value, else ValueError
Method(value) ==
    IF IsMethod(value) THEN Ok(value)
    ELSE IF value.k = "str" /\ value.s \in SUPPORTED_METHODS THEN Ok(MethodMember(value.s))
    ELSE ValueError("is not a valid Method")

(***************************************************************************)
(* str(), iteration, json.loads(json.dumps())                              *)
(***************************************************************************)
Digit(n) == <<"0", "1", "2", "3", "4", "5", "6", "7", "8", "9">>[n + 1]

RECURSIVE IntStr(_)
IntStr(n) ==
    IF n < 0 THEN "-" \o IntStr(0 - n)
    ELSE IF n < 10 THEN Digit(n)
    ELSE IntStr(n \div 10) \o Digit(n % 10)

RECURSIVE PyRepr(_)
RECURSIVE ReprItems(_)
ReprItems(items) ==
    IF items = <<>> THEN ""
    ELSE IF Len(items) = 1 THEN PyRepr(items[1])
    ELSE PyRepr(Head(items)) \o ", " \o ReprItems(Tail(items))

\* repr(value), and str(value) of everything but strings and members
PyRepr(v) ==
    CASE v.k = "none" -> "None"
      [] v.k = "str" -> "'" \o v.s \o "'"
      [] v.k = "int" -> IntStr(v.n)
      [] v.k = "list" -> "[" \o ReprItems(v.items) \o "]"
      [] v.k = "tuple" ->
            IF Len(v.items) = 1 THEN "(" \o PyRepr(v.items[1]) \o ",)"
            ELSE "(" \o ReprItems(v.items) \o ")"
      [] v.k = "enum" -> "<" \o v.cls \o "." \o v.name \o ": '" \o v.s \o "'>"
      [] v.k = "dict" -> IF DOMAIN v.m = {} THEN "{}" ELSE "{...}"
      [] v.k = "pydict" -> IF v.pairs = <<>> THEN "{}" ELSE "{...}"
      [] v.k = "obj" -> "<" \o v.cls \o " object>"
      [] OTHER -> "<object object>"

\* str(value).  InputType is a plain enum.Enum ("InputType.TEXT"); the
\* string form of a Method member is its value.
PyStr(v) ==
    CASE v.k = "str" -> v.s
      [] v.k = "enum" /\ v.cls = "Method" -> v.s
      [] v.k = "enum" -> v.cls \o "." \o v.name
      [] OTHER -> PyRepr(v)

StrOf(v) == Str(PyStr(v))

\* the characters of the strings that are iterated in the explored inputs
CharsOf(s) ==
    CASE s = "" -> <<>>
      [] s = "ab" -> <<Str("a"), Str("b")>>
      [] OTHER -> <<Str(s)>>

RECURSIVE SetToSeq(_)
\* the elements of a finite set in some order
SetToSeq(S) ==
    IF S = {} THEN <<>>
    ELSE LET x == CHOOSE y \in S : TRUE IN <<x>> \o SetToSeq(S \ {x})

\* the keys of a dictionary, in the order iteration yields them
KeysOf(m) == SetToSeq(DOMAIN m)

\* iter(value): the items, or TypeError when the value is not iterable
Iter(v) ==
    CASE v.k = "list" -> Ok(v.items)
      [] v.k = "tuple" -> Ok(v.items)
      [] v.k = "str" -> Ok(CharsOf(v.s))
      [] v.k = "pydict" -> Ok([i \in DOMAIN v.pairs |-> v.pairs[i][1]])
      [] v.k = "dict" -> Ok(LET keys(m) == [i \in DOMAIN m |-> Str(m[i])] IN keys(KeysOf(v.m)))
      [] OTHER -> Err("TypeError", "object is not iterable")

\* the key json.dumps writes for a dictionary key, TypeError when it rejects it
JsonKey(key) ==
    CASE key.k = "str" -> Ok(key.s)
      [] key.k = "int" -> Ok(IntStr(key.n))
      [] key.k = "none" -> Ok("null")
      [] OTHER -> Err("TypeError", "keys must be str, int, float, bool or None")

RECURSIVE JsonCopy(_)
RECURSIVE JsonCopyPairs(_, _)
\* json.loads(json.dumps(pairs)) of the items of a dictionary; later keys win
JsonCopyPairs(pairs, acc) ==
    IF pairs = <<>> THEN Ok(PDict(acc))
    ELSE LET Copied(key, val) ==
                IF ~key.ok THEN key
                ELSE IF ~val.ok THEN val
                ELSE JsonCopyPairs(Tail(pairs),
                        [x \in DOMAIN acc \cup {key.val} |->
                            IF x = key.val THEN val.val ELSE acc[x]])
         IN Copied(JsonKey(Head(pairs)[1]), JsonCopy(Head(pairs)[2]))

\* json.loads(json.dumps(value)): TypeError when value is not serializable
JsonCopy(v) ==
    CASE v.k \in {"none", "str", "int"} -> Ok(v)
      [] v.k \in {"list", "tuple"} ->
            LET outs == [i \in DOMAIN v.items |-> JsonCopy(v.items[i])]
            IN IF FirstFailure(outs) # 0 THEN outs[FirstFailure(outs)]
               ELSE Ok(PList(Vals(outs)))
      [] v.k = "dict" ->
            LET outs == [key \in DOMAIN v.m |-> JsonCopy(v.m[key])]
            IN IF \E key \in DOMAIN v.m : ~outs[key].ok
               THEN Err("TypeError", "Object is not JSON serializable")
               ELSE Ok(PDict([key \in DOMAIN v.m |-> outs[key].val]))
      [] v.k = "pydict" -> JsonCopyPairs(v.pairs, EmptyMap)
      [] OTHER -> Err("TypeError", "Object is not JSON serializable")

\* getattr(obj, name)
GetAttr(obj, name) ==
    IF obj.k = "obj" /\ name \in DOMAIN obj.attrs THEN Ok(obj.attrs[name])
    ELSE Err("AttributeError", "object has no attribute '" \o name \o "'")

\* hasattr(obj, name)
HasAttr(obj, name) == GetAttr(obj, name).ok

\* data[key]: KeyError when a dictionary lacks the key, TypeError when data
\* are not a dictionary
GetItem(data, key) ==
    IF data.k = "dict"
    THEN IF key \in DOMAIN data.m THEN Ok(data.m[key]) ELSE Err("KeyError", key)
    ELSE Err("TypeError", "indices must be integers or object is not subscriptable")

\* data.get(key, default)
DictGet(data, key, default) ==
    IF data.k = "dict"
    THEN IF key \in DOMAIN data.m THEN Ok(data.m[key]) ELSE Ok(default)
    ELSE Err("AttributeError", "object has no attribute 'get'")

(***************************************************************************)
(* lila.core.common                                                        *)
(***************************************************************************)
\* tuple(str(class_) for class_ in classes)
adjust_classes(classes) ==
    LET Adjusted(items) ==
            IF ~items.ok THEN items
            ELSE Ok(PTuple([i \in DOMAIN items.val |-> StrOf(items.val[i])]))
    IN Adjusted(Iter(classes))

\* tuple of the string forms of the relations; a value that is not iterable
\* is rejected with the validation error
adjust_relations(relations) ==
    LET Adjusted(items) ==
            IF ~items.ok THEN ValueError("Relationships must be iterable with string values")
            ELSE Ok(PTuple([i \in DOMAIN items.val |-> StrOf(items.val[i])]))
    IN Adjusted(Iter(relations))

\* one (key, value) item of dict(iterable)
PairOf(item) ==
    LET Pair(parts) ==
            IF parts.ok /\ Len(parts.val) = 2 THEN Ok(<<parts.val[1], parts.val[2]>>)
            ELSE Err("TypeError", "cannot convert dictionary update sequence element")
    IN Pair(Iter(item))

\* dict(properties), as the sequence of its items
DictItems(properties) ==
    CASE properties.k = "pydict" -> Ok(properties.pairs)
      [] properties.k = "dict" ->
            LET Items(keys) == Ok([i \in DOMAIN keys |-> <<Str(keys[i]), properties.m[keys[i]]>>])
            IN Items(KeysOf(properties.m))
      [] OTHER ->
            LET Pairs(outs) ==
                    IF FirstFailure(outs) # 0 THEN outs[FirstFailure(outs)] ELSE Ok(Vals(outs))
                Items(items) ==
                    IF ~items.ok THEN items
                    ELSE Pairs([i \in DOMAIN items.val |-> PairOf(items.val[i])])
            IN Items(Iter(properties))

RECURSIVE AdjustPairs(_, _)
\* the loop of adjust_properties over the items of the dictionary
AdjustPairs(pairs, acc) ==
    IF pairs = <<>> THEN Ok(PDict(acc))
    ELSE LET Adjusted(adjusted_name, adjusted_value) ==
                IF ~adjusted_value.ok
                THEN ValueError("Unsupported value for property '" \o adjusted_name \o "'")
                ELSE AdjustPairs(Tail(pairs),
                        [x \in DOMAIN acc \cup {adjusted_name} |->
                            IF x = adjusted_name THEN adjusted_value.val ELSE acc[x]])
         IN Adjusted(PyStr(Head(pairs)[1]), JsonCopy(Head(pairs)[2]))

\* dict(properties) alone, returned as it is
adjust_properties_dict(properties) ==
    LET Adjusted(items) ==
            IF ~items.ok THEN ValueError("Can't create dictionary from properties")
            ELSE Ok(PyDict(items.val))
    IN Adjusted(DictItems(properties))

adjust_properties(properties) ==
    LET Adjusted(items) ==
            IF ~items.ok THEN ValueError("Can't create dictionary from properties")
            ELSE AdjustPairs(items.val, EmptyMap)
    IN Adjusted(DictItems(properties))

\* "if x is not None: x = str(x)"
OptStr(v) == IF v.k = "none" THEN None ELSE StrOf(v)

(***************************************************************************)
(* lila.core.field.Field, lila.core.action.Action, lila.core.link          *)
(***************************************************************************)
Field(name, classes, input_type, value, title) ==
    LET Made(cls) ==
            IF ~cls.ok THEN cls
            ELSE IF ~IsInputType(input_type)
            THEN ValueError("Unsupported input type '" \o PyStr(input_type) \o "'")
            ELSE Ok(Obj("Field",
                    [name |-> StrOf(name), classes |-> cls.val, input_type |-> input_type,
                     value |-> OptStr(value), title |-> OptStr(title)]))
    IN Made(adjust_classes(classes))

\* "method not in self._SUPPORTED_METHODS": a member of Method is found in
\* the set of its value strings, a string when it is one of them
MethodSupported(method) ==
    /\ method.k \in {"str", "enum"}
    /\ method.k = "enum" => method.cls = "Method"
    /\ method.s \in SUPPORTED_METHODS

\* isinstance(value, cls)
IsInstance(value, classes) == value.k = "obj" /\ value.cls \in classes

DefaultEncodingType == "application/x-www-form-urlencoded"

\* a constructor that leaves the encoding type of an action with fields null
Action_plain(name, target, classes, method, title, fields, encoding_type) ==
    LET Made(cls, items) ==
            IF ~cls.ok THEN cls
            ELSE IF method.k \in {"list", "dict", "pydict"}
            THEN Err("TypeError", "unhashable type")
            ELSE IF ~MethodSupported(method)
            THEN ValueError("Method '" \o PyStr(method) \o "' is not supported")
            ELSE IF ~items.ok THEN items
            ELSE IF \E i \in DOMAIN items.val : ~IsInstance(items.val[i], {"Field"})
            THEN ValueError("Some of the fields are of incompatible type")
            ELSE Ok(Obj("Action",
                    [name |-> StrOf(name), target |-> StrOf(target), classes |-> cls.val,
                     method |-> method, title |-> OptStr(title),
                     fields |-> PTuple(items.val),
                     encoding_type |->
                        IF encoding_type.k # "none" THEN StrOf(encoding_type) ELSE None]))
    IN Made(adjust_classes(classes), Iter(fields))

Action(name, target, classes, method, title, fields, encoding_type) ==
    LET Made(cls, items) ==
            IF ~cls.ok THEN cls
            ELSE IF method.k \in {"list", "dict", "pydict"}
            THEN Err("TypeError", "unhashable type")
            ELSE IF ~MethodSupported(method)
            THEN ValueError("Method '" \o PyStr(method) \o "' is not supported")
            ELSE IF ~items.ok THEN items
            ELSE IF \E i \in DOMAIN items.val : ~IsInstance(items.val[i], {"Field"})
            THEN ValueError("Some of the fields are of incompatible type")
            ELSE Ok(Obj("Action",
                    [name |-> StrOf(name), target |-> StrOf(target), classes |-> cls.val,
                     method |-> method, title |-> OptStr(title),
                     fields |-> PTuple(items.val),
                     encoding_type |->
                        IF encoding_type.k # "none" THEN StrOf(encoding_type)
                        ELSE IF items.val # <<>> THEN Str(DefaultEncodingType)
                        ELSE None]))
    IN Made(adjust_classes(classes), Iter(fields))

Link(relations, target, classes, title, target_media_type) ==
    LET Made(rels, cls) ==
            IF ~rels.ok THEN rels
            ELSE IF ~cls.ok THEN cls
            ELSE Ok(Obj("Link",
                    [relations |-> rels.val, target |-> StrOf(target), classes |-> cls.val,
                     title |-> OptStr(title),
                     target_media_type |-> OptStr(target_media_type)]))
    IN Made(adjust_relations(relations), adjust_classes(classes))

EmbeddedLink(relations, target, classes, title, target_media_type) ==
    LET Made(rels, cls) ==
            IF ~rels.ok THEN rels
            ELSE IF rels.val.items = <<>>
            THEN ValueError("No relations are passed to create an embedded link")
            ELSE IF ~cls.ok THEN cls
            ELSE Ok(Obj("EmbeddedLink",
                    [relations |-> rels.val, target |-> StrOf(target), classes |-> cls.val,
                     title |-> OptStr(title),
                     target_media_type |-> OptStr(target_media_type)]))
    IN Made(adjust_relations(relations), adjust_classes(classes))

(***************************************************************************)
(* lila.core.entity                                                        *)
(***************************************************************************)
\* the checks and attributes Entity and EmbeddedRepresentation share
EntityAttrs(classes, properties, entities, links, actions, title) ==
    LET Checked(cls, props, subs, lnks, acts) ==
       IF ~cls.ok THEN cls
       ELSE IF ~props.ok THEN props
       ELSE IF ~subs.ok THEN subs
       ELSE IF \E i \in DOMAIN subs.val :
                    ~IsInstance(subs.val[i], {"EmbeddedLink", "EmbeddedRepresentation"})
       THEN ValueError("Some of the entities are of incompatible type")
       ELSE IF ~lnks.ok THEN lnks
       ELSE IF \E i \in DOMAIN lnks.val : ~IsInstance(lnks.val[i], {"Link"})
       THEN ValueError("Some of the links are of incompatible type")
       ELSE IF ~acts.ok THEN acts
       ELSE IF \E i \in DOMAIN acts.val : ~IsInstance(acts.val[i], {"Action"})
       THEN ValueError("Some of the actions are of incompatible type")
       ELSE IF \E i, j \in DOMAIN acts.val :
                    i # j /\ acts.val[i].attrs.name = acts.val[j].attrs.name
       THEN ValueError("Some of the actions have the same name")
       ELSE Ok([classes |-> cls.val, properties |-> props.val,
                entities |-> PTuple(subs.val), links |-> PTuple(lnks.val),
                actions |-> PTuple(acts.val), title |-> OptStr(title)])
    IN Checked(adjust_classes(classes), adjust_properties(properties), Iter(entities),
               Iter(links), Iter(actions))

Entity(classes, properties, entities, links, actions, title) ==
    LET Made(attrs) == IF ~attrs.ok THEN attrs ELSE Ok(Obj("Entity", attrs.val))
    IN Made(EntityAttrs(classes, properties, entities, links, actions, title))

EmbeddedRepresentation(relations, classes, properties, entities, links, actions, title) ==
    LET Made(rels, attrs) ==
            IF ~rels.ok THEN rels
            ELSE IF rels.val.items = <<>>
            THEN ValueError("No relations are passed to create an embedded representation")
            ELSE IF ~attrs.ok THEN attrs
            ELSE Ok(Obj("EmbeddedRepresentation",
                    [x \in DOMAIN attrs.val \cup {"relations"} |->
                        IF x = "relations" THEN rels.val ELSE attrs.val[x]]))
    IN Made(adjust_relations(relations),
            EntityAttrs(classes, properties, entities, links, actions, title))

(***************************************************************************)
(* Steps the marshalers repeat for every attribute.                        *)
(***************************************************************************)
\* try: x = str(obj.attr) / except AttributeError: "Failed to get <what>"
GetStr(obj, attr, what) ==
    IF ~HasAttr(obj, attr) THEN ValueError("Failed to get " \o what)
    ELSE Ok(StrOf(obj.attrs[attr]))

\* a read that lets the AttributeError of a missing attribute escape
GetOptStr_raw(obj, attr, what) ==
    IF ~HasAttr(obj, attr) THEN GetAttr(obj, attr)
    ELSE Ok(OptStr(obj.attrs[attr]))

\* try: x = obj.attr / except AttributeError; if x is not None: x = str(x)
GetOptStr(obj, attr, what) ==
    IF ~HasAttr(obj, attr) THEN ValueError("Failed to get " \o what)
    ELSE Ok(OptStr(obj.attrs[attr]))

\* try: xs = list(str(x) for x in obj.attr) / except AttributeError: "Failed
\* to get <what>" / except TypeError: "Failed to iterate over <what>"
GetStrList(obj, attr, what) ==
    LET Listed(items) ==
            IF ~items.ok THEN ValueError("Failed to iterate over " \o what)
            ELSE Ok(PList([i \in DOMAIN items.val |-> StrOf(items.val[i])]))
    IN IF ~HasAttr(obj, attr) THEN ValueError("Failed to get " \o what)
       ELSE Listed(Iter(obj.attrs[attr]))

\* try: xs = list(obj.attr) / except AttributeError / except TypeError
GetList(obj, attr, what) ==
    LET Listed(items) ==
            IF ~items.ok THEN ValueError("Failed to iterate over " \o what) ELSE items
    IN IF ~HasAttr(obj, attr) THEN ValueError("Failed to get " \o what)
       ELSE Listed(Iter(obj.attrs[attr]))

\* try: properties = json.loads(json.dumps(obj.properties)) / except
\* AttributeError: "Failed to get <what>" / except TypeError: "Failed to
\* marshal <what>"
GetProperties(obj, what) ==
    LET Copied(copy) == IF ~copy.ok THEN ValueError("Failed to marshal " \o what) ELSE copy
    IN IF ~HasAttr(obj, "properties") THEN ValueError("Failed to get " \o what)
       ELSE Copied(JsonCopy(obj.attrs["properties"]))

\* the results of the nested items: the list of the marshaled items, or
\* "Failed to marshal <what>" when one of them failed
Nested(what, outs) ==
    LET results == Each(outs)
    IN IF FirstFailure(results) # 0 THEN ValueError("Failed to marshal " \o what)
       ELSE Ok(PList(Vals(results)))

\* try: items = [marshal(item) for item in xs] / except Exception: "Failed
\* to marshal <what>", once the items were got
NestedBy(items, what, marshal(_)) ==
    IF ~items.ok THEN items
    ELSE Nested(what, [i \in DOMAIN items.val |-> marshal(items.val[i])])

\* a dictionary that leaves out the keys whose value is None
DictOf_sparse(keys, outs) ==
    IF FirstFailure(outs) # 0 THEN outs[FirstFailure(outs)]
    ELSE Ok(PDict([key \in {keys[i] : i \in {j \in DOMAIN keys : outs[j].val # None}} |->
                outs[CHOOSE i \in DOMAIN keys : keys[i] = key].val]))

\* the dictionary literal {keys[1]: outs[1], ...}: the values are evaluated
\* in order and the first failure is raised
DictOf(keys, outs) ==
    IF FirstFailure(outs) # 0 THEN outs[FirstFailure(outs)]
    ELSE Ok(PDict([key \in Range(keys) |->
                outs[CHOOSE i \in DOMAIN keys : keys[i] = key].val]))

FieldKeys == <<"name", "class", "type", "value", "title">>
ActionKeys == <<"name", "class", "method", "href", "title", "type", "fields">>
LinkKeys == <<"rel", "class", "href", "title", "type">>
EntityKeys == <<"class", "properties", "entities", "links", "actions", "title">>
RepresentationKeys ==
    <<"rel", "class", "properties", "entities", "links", "actions", "title">>

(***************************************************************************)
(* The facade: a JSONMarshaler or a JSONParser.  Its marshal_<type> and    *)
(* parse_<type> methods are looked up on the instance at every call, so a  *)
(* subclass or an instance attribute can replace one of them.              *)
(***************************************************************************)
\* no item
Nothing == [k |-> "nothing"]

\* an instance: its class; the create_<type>_marshaler /
\* create_<type>_parser attribute a subclass redefines; the method that is
\* replaced, the exception the replacement raises and the item it raises it
\* for
Instance(cls, factory, method, raises, poison) ==
    [cls |-> cls, factory |-> factory, method |-> method, raises |-> raises,
     poison |-> poison]

Facade(cls, factory) == Instance(cls, factory, "none", "none", Nothing)

\* JSONMarshaler() / JSONParser() themselves
Default == Facade("default", "none")

\* json_marshaler.marshal_field = fields.index: the replacement returns data
\* that tell the item it was called with, or raises for the one item
Replacement(self, method, item) ==
    IF self.raises # "none" /\ item = self.poison THEN Err(self.raises, "")
    ELSE Ok(PTuple(<<Str(method), item>>))

\* try: items = list(self.marshal_x(item) for item in obj.attr)
\* except AttributeError: "Failed to get <what>" / except TypeError:
\* "Failed to iterate over <what>" / except ValueError: "Failed to marshal
\* <what>"; any other exception of self.marshal_x is not caught
Comprehended(items, what, marshal(_)) ==
    LET Caught(results) ==
            IF FirstFailure(results) = 0 THEN Ok(PList(Vals(results)))
            ELSE CASE results[FirstFailure(results)].exc = "AttributeError" ->
                        ValueError("Failed to get " \o what)
                   [] results[FirstFailure(results)].exc = "TypeError" ->
                        ValueError("Failed to iterate over " \o what)
                   [] results[FirstFailure(results)].exc = "ValueError" ->
                        ValueError("Failed to marshal " \o what)
                   [] OTHER -> results[FirstFailure(results)]
    IN IF ~items.ok THEN items
       ELSE Caught([i \in DOMAIN items.val |-> marshal(items.val[i])])

(***************************************************************************)
(* lila.serialization.json.marshaler.JSONMarshaler                         *)
(***************************************************************************)
RECURSIVE FacadeMarshal(_, _, _)

\* str(field.input_type), then InputType(input_type)
MarshalInputType(field) ==
    LET Marshaled(input_type) ==
            IF ~input_type.ok THEN ValueError("Field's input type is not supported")
            ELSE Ok(Str(input_type.val.s))
    IN IF ~HasAttr(field, "input_type") THEN ValueError("Failed to get field's input type")
       ELSE Marshaled(InputType(StrOf(field.attrs["input_type"])))

JSONMarshaler_marshal_field(field) ==
    DictOf(FieldKeys,
           <<GetStr(field, "name", "field's name"),
             GetStrList(field, "classes", "field's classes"),
             MarshalInputType(field),
             GetOptStr(field, "value", "field's value"),
             GetOptStr(field, "title", "field's title")>>)

\* method = action.method; "if not isinstance(method, Method)"
JSONMarshaler_marshal_action_method(action) ==
    IF ~HasAttr(action, "method") THEN ValueError("Failed to get action's method")
    ELSE IF ~IsMethod(action.attrs["method"]) THEN ValueError("Action's method is not supported")
    ELSE Ok(Str(action.attrs["method"].s))

JSONMarshaler_marshal_action(self, action) ==
    DictOf(ActionKeys,
           <<GetStr(action, "name", "action's name"),
             GetStrList(action, "classes", "action's classes"),
             JSONMarshaler_marshal_action_method(action),
             GetStr(action, "target", "action's target"),
             GetOptStr(action, "title", "action's title"),
             GetOptStr(action, "encoding_type", "action's encoding type"),
             Comprehended(GetList(action, "fields", "action's fields"), "action's fields",
                          LAMBDA field : FacadeMarshal(self, "marshal_field", field))>>)

JSONMarshaler_marshal_link(link) ==
    DictOf(LinkKeys,
           <<GetStrList(link, "relations", "link's relations"),
             GetStrList(link, "classes", "link's classes"),
             GetStr(link, "target", "link's target"),
             GetOptStr(link, "title", "link's title"),
             GetOptStr(link, "target_media_type", "link's target media type")>>)

\* an embedded link marshaled without the keys that have no value, 'href'
\* among them
JSONMarshaler_marshal_embedded_link_sparse(embedded_link) ==
    DictOf_sparse(LinkKeys,
           <<GetStrList(embedded_link, "relations", "relations of the embedded link"),
             GetStrList(embedded_link, "classes", "classes of the embedded link"),
             GetOptStr(embedded_link, "target", "target of the embedded link"),
             GetOptStr(embedded_link, "title", "title of the embedded link"),
             GetOptStr(embedded_link, "target_media_type",
                       "target media type of the embedded link")>>)

JSONMarshaler_marshal_embedded_link(embedded_link) ==
    DictOf(LinkKeys,
           <<GetStrList(embedded_link, "relations", "relations of the embedded link"),
             GetStrList(embedded_link, "classes", "classes of the embedded link"),
             GetStr(embedded_link, "target", "target of the embedded link"),
             GetOptStr(embedded_link, "title", "title of the embedded link"),
             GetOptStr(embedded_link, "target_media_type",
                       "target media type of the embedded link")>>)

\* the facade method JSONMarshaler._marshal_sub_entity hands a sub-entity to
JSONMarshaler_sub_entity_route(sub_entity) ==
    IF ~GetAttr(sub_entity, "target").ok THEN "marshal_embedded_representation"
    ELSE "marshal_embedded_link"

\* the links and the actions of an entity or an embedded representation
MarshalLinks(self, obj, what) ==
    Comprehended(GetList(obj, "links", what), what,
                 LAMBDA link : FacadeMarshal(self, "marshal_link", link))

MarshalActions(self, obj, what) ==
    Comprehended(GetList(obj, "actions", what), what,
                 LAMBDA action : FacadeMarshal(self, "marshal_action", action))

JSONMarshaler_marshal_sub_entity(self, sub_entity) ==
    FacadeMarshal(self, JSONMarshaler_sub_entity_route(sub_entity), sub_entity)

\* the sub-entities of an entity or an embedded representation
MarshalSubEntities(self, obj, what) ==
    Comprehended(GetList(obj, "entities", what), what,
                 LAMBDA sub_entity : JSONMarshaler_marshal_sub_entity(self, sub_entity))

JSONMarshaler_marshal_embedded_representation(self, embedded_representation) ==
    DictOf(RepresentationKeys,
           <<GetStrList(embedded_representation, "relations",
                        "relations of the embedded representation"),
             GetStrList(embedded_representation, "classes",
                        "classes of the embedded representation"),
             GetProperties(embedded_representation,
                           "properties of the embedded representation"),
             MarshalSubEntities(self, embedded_representation,
                                "sub entities of the embedded representation"),
             MarshalLinks(self, embedded_representation, "links of the embedded representation"),
             MarshalActions(self, embedded_representation,
                            "actions of the embedded representation"),
             GetOptStr(embedded_representation, "title",
                       "title of the embedded representation")>>)

JSONMarshaler_marshal_entity(self, entity) ==
    DictOf(EntityKeys,
           <<GetStrList(entity, "classes", "entity's classes"),
             GetProperties(entity, "entity's properties"),
             MarshalSubEntities(self, entity, "sub entities of the entity"),
             MarshalLinks(self, entity, "entity's links"),
             MarshalActions(self, entity, "entity's actions"),
             GetOptStr(entity, "title", "entity's title")>>)

(***************************************************************************)
(* The facade a component marshaler is bound to.                           *)
(***************************************************************************)
\* marshaler.<method>(obj)
FacadeMarshal(marshaler, method, obj) ==
    IF method = marshaler.method THEN Replacement(marshaler, method, obj)
    ELSE CASE method = "marshal_field" -> JSONMarshaler_marshal_field(obj)
           [] method = "marshal_action" -> JSONMarshaler_marshal_action(marshaler, obj)
           [] method = "marshal_link" -> JSONMarshaler_marshal_link(obj)
           [] method = "marshal_embedded_link" -> JSONMarshaler_marshal_embedded_link(obj)
           [] method = "marshal_embedded_representation" ->
                JSONMarshaler_marshal_embedded_representation(marshaler, obj)
           [] OTHER -> JSONMarshaler_marshal_entity(marshaler, obj)

\* the loop marshaling each item by the default methods, whatever the facade
MarshalEach_direct(marshaler, method, items, what) ==
    IF ~items.ok THEN items
    ELSE Nested(what, [i \in DOMAIN items.val |-> FacadeMarshal(Default, method, items.val[i])])

\* the loop over the nested items: each is handed to the facade method
MarshalEach(marshaler, method, items, what) ==
    IF ~items.ok THEN items
    ELSE Nested(what, [i \in DOMAIN items.val |-> FacadeMarshal(marshaler, method, items.val[i])])

(***************************************************************************)
(* lila.serialization.json.field.FieldMarshaler                            *)
(***************************************************************************)
FieldMarshaler_marshal_name(field) == GetStr(field, "name", "field's name")

FieldMarshaler_marshal_classes(field) == GetStrList(field, "classes", "field's classes")

FieldMarshaler_marshal_input_type(field) == MarshalInputType(field)

FieldMarshaler_marshal_value(field) == GetOptStr(field, "value", "field's value")

FieldMarshaler_marshal_title(field) == GetOptStr(field, "title", "field's title")

FieldMarshaler_marshal(field) ==
    DictOf(FieldKeys,
           <<FieldMarshaler_marshal_name(field),
             FieldMarshaler_marshal_classes(field),
             FieldMarshaler_marshal_input_type(field),
             FieldMarshaler_marshal_value(field),
             FieldMarshaler_marshal_title(field)>>)

(***************************************************************************)
(* lila.serialization.json.action.ActionMarshaler                          *)
(***************************************************************************)
ActionMarshaler_marshal_name(action) == GetStr(action, "name", "action's name")

ActionMarshaler_marshal_classes(action) == GetStrList(action, "classes", "action's classes")

\* method = str(action.method), then Method(method)
ActionMarshaler_marshal_method(action) ==
    LET Marshaled(method) ==
            IF ~method.ok THEN ValueError("Action's method is not supported")
            ELSE Ok(Str(method.val.s))
    IN IF ~HasAttr(action, "method") THEN ValueError("Failed to get action's method")
       ELSE Marshaled(Method(StrOf(action.attrs["method"])))

ActionMarshaler_marshal_target(action) == GetStr(action, "target", "action's target")

ActionMarshaler_marshal_title(action) == GetOptStr(action, "title", "action's title")

ActionMarshaler_marshal_encoding_type(action) ==
    GetOptStr(action, "encoding_type", "action's encoding type")

ActionMarshaler_marshal_fields(action, marshaler) ==
    MarshalEach(marshaler, "marshal_field",
                GetList(action, "fields", "action's fields"), "action's fields")

ActionMarshaler_marshal(action, marshaler) ==
    DictOf(ActionKeys,
           <<ActionMarshaler_marshal_name(action),
             ActionMarshaler_marshal_classes(action),
             ActionMarshaler_marshal_method(action),
             ActionMarshaler_marshal_target(action),
             ActionMarshaler_marshal_title(action),
             ActionMarshaler_marshal_encoding_type(action),
             ActionMarshaler_marshal_fields(action, marshaler)>>)

(***************************************************************************)
(* lila.serialization.json.link                                            *)
(***************************************************************************)
LinkMarshaler_marshal(link) ==
    DictOf(LinkKeys,
           <<GetStrList(link, "relations", "link's relations"),
             GetStrList(link, "classes", "link's classes"),
             GetStr(link, "target", "link's target"),
             GetOptStr(link, "title", "link's title"),
             GetOptStr(link, "target_media_type", "link's target media type")>>)

EmbeddedLinkMarshaler_marshal(embedded_link) ==
    DictOf(LinkKeys,
           <<GetStrList(embedded_link, "relations", "relations of the embedded link"),
             GetStrList(embedded_link, "classes", "classes of the embedded link"),
             GetStr(embedded_link, "target", "target of the embedded link"),
             GetOptStr(embedded_link, "title", "title of the embedded link"),
             GetOptStr(embedded_link, "target_media_type",
                       "target media type of the embedded link")>>)

(***************************************************************************)
(* lila.serialization.json.entity                                          *)
(***************************************************************************)
\* the facade method _marshal_sub_entity hands a sub-entity to
sub_entity_route(sub_entity) ==
    IF HasAttr(sub_entity, "target") THEN "marshal_embedded_representation"
    ELSE "marshal_embedded_link"

marshal_sub_entity(sub_entity, marshaler) ==
    FacadeMarshal(marshaler, sub_entity_route(sub_entity), sub_entity)

\* marshal_entities of EntityMarshaler and EmbeddedRepresentationMarshaler
MarshalerEntities(obj, marshaler, what) ==
    NestedBy(GetList(obj, "entities", what), what,
             LAMBDA sub_entity : marshal_sub_entity(sub_entity, marshaler))

EntityMarshaler_marshal_entities(entity, marshaler) ==
    MarshalerEntities(entity, marshaler, "sub entities of the entity")

EntityMarshaler_marshal(entity, marshaler) ==
    DictOf(EntityKeys,
           <<GetStrList(entity, "classes", "entity's classes"),
             GetProperties(entity, "entity's properties"),
             EntityMarshaler_marshal_entities(entity, marshaler),
             MarshalEach(marshaler, "marshal_link",
                         GetList(entity, "links", "entity's links"), "entity's links"),
             MarshalEach(marshaler, "marshal_action",
                         GetList(entity, "actions", "entity's actions"), "entity's actions"),
             GetOptStr(entity, "title", "entity's title")>>)

EmbeddedRepresentationMarshaler_marshal_entities(embedded_representation, marshaler) ==
    MarshalerEntities(embedded_representation, marshaler,
                      "sub entities of the embedded representation")

EmbeddedRepresentationMarshaler_marshal(embedded_representation, marshaler) ==
    DictOf(RepresentationKeys,
           <<GetStrList(embedded_representation, "relations",
                        "relations of the embedded representation"),
             GetStrList(embedded_representation, "classes",
                        "classes of the embedded representation"),
             GetProperties(embedded_representation,
                           "properties of the embedded representation"),
             EmbeddedRepresentationMarshaler_marshal_entities(embedded_representation,
                                                              marshaler),
             MarshalEach(marshaler, "marshal_link",
                         GetList(embedded_representation, "links",
                                 "links of the embedded representation"),
                         "links of the embedded representation"),
             MarshalEach(marshaler, "marshal_action",
                         GetList(embedded_representation, "actions",
                                 "actions of the embedded representation"),
                         "actions of the embedded representation"),
             GetOptStr(embedded_representation, "title",
                       "title of the embedded representation")>>)

(***************************************************************************)
(* lila.serialization.json.parser.JSONParser                               *)
(***************************************************************************)
\* json.loads(json.dumps(data)); TypeError becomes ValueError
ensure_json(data) ==
    LET Ensured(adjusted_data) ==
            IF ~adjusted_data.ok THEN ValueError("Specified data are not a valid JSON object")
            ELSE adjusted_data
    IN Ensured(JsonCopy(data))

\* data = _ensure_json(data), then the rest of the parse method
AsJson(data, parse(_)) ==
    LET Parsed(json) == IF ~json.ok THEN json ELSE parse(json.val)
    IN Parsed(ensure_json(data))

\* a failure that does not say which key is missing
Required_unnamed(data, key, what) ==
    LET value == GetItem(data, key)
    IN IF ~value.ok /\ value.exc = "KeyError"
       THEN ValueError(what \o " data do not have a required key")
       ELSE value

\* try: x = data[key] / except KeyError: raise ValueError(<message>); a
\* TypeError is not caught
Required(data, key, what) ==
    LET value == GetItem(data, key)
    IN IF ~value.ok /\ value.exc = "KeyError"
       THEN ValueError(what \o " data do not have required '" \o key \o "' key")
       ELSE value

\* try: items = [parse(item) for item in items_data] / except (TypeError,
\* ValueError): raise ValueError(message)
ParsedList(items_data, outs, message) ==
    LET results == Each(outs)
    IN IF ~items_data.ok THEN items_data
       ELSE IF ~Iter(items_data.val).ok THEN ValueError(message)
       ELSE IF FirstFailure(results) = 0 THEN Ok(PList(Vals(results)))
       ELSE IF results[FirstFailure(results)].exc \in {"TypeError", "ValueError"}
       THEN ValueError(message)
       ELSE results[FirstFailure(results)]

\* the items of a nested collection, <<>> when there is none to iterate
ItemsOf(items_data) ==
    IF items_data.ok /\ Iter(items_data.val).ok THEN Iter(items_data.val).val ELSE <<>>

\* the comprehension [parse(item) for item in items_data] of a parse method
ParsedBy(items_data, message, parse(_)) ==
    ParsedList(items_data,
               [i \in DOMAIN ItemsOf(items_data) |-> parse(ItemsOf(items_data)[i])],
               message)

\* a parse method that wraps the error of the constructor in one of its own
Constructed_wrapped(outs, construct(_)) ==
    IF FirstFailure(outs) # 0 THEN outs[FirstFailure(outs)]
    ELSE IF ~construct(Vals(outs)).ok THEN ValueError("Failed to create an object")
    ELSE construct(Vals(outs))

\* the statements of a parse method, in order: the first that raises ends
\* the method, else the constructor is called with the values
Constructed(outs, construct(_)) ==
    IF FirstFailure(outs) # 0 THEN outs[FirstFailure(outs)] ELSE construct(Vals(outs))

\* input_type_value = str(data.get("type", "text")); InputType(input_type_value)
ParseInputType(data) ==
    LET Found(input_type) ==
            IF ~input_type.ok THEN ValueError("Unsupported input type is specified")
            ELSE input_type
        Typed(type) == IF ~type.ok THEN type ELSE Found(InputType(StrOf(type.val)))
    IN Typed(DictGet(data, "type", Str("text")))

RECURSIVE FacadeParse(_, _, _)

JSONParser_parse_field_data(data) ==
    Constructed(<<Required(data, "name", "Field"),
                  DictGet(data, "class", PTuple(<<>>)),
                  ParseInputType(data),
                  DictGet(data, "value", None),
                  DictGet(data, "title", None)>>,
                LAMBDA v : Field(v[1], v[2], v[3], v[4], v[5]))

JSONParser_parse_field(data) == AsJson(data, JSONParser_parse_field_data)

\* a method that defaults to POST
JSONParser_parse_method_post(data) ==
    LET method_value == DictGet(data, "method", Str("POST"))
    IN IF ~method_value.ok THEN method_value
       ELSE IF method_value.val.k = "str" /\ method_value.val.s \in SUPPORTED_METHODS
       THEN Ok(MethodMember(method_value.val.s))
       ELSE ValueError("Unsupported method is specified")

\* next(m for m in Method if m.value == method_value)
JSONParser_parse_method(data) ==
    LET method_value == DictGet(data, "method", Str("GET"))
    IN IF ~method_value.ok THEN method_value
       ELSE IF method_value.val.k = "str" /\ method_value.val.s \in SUPPORTED_METHODS
       THEN Ok(MethodMember(method_value.val.s))
       ELSE ValueError("Unsupported method is specified")

\* name, classes, method, target, title, encoding_type, fields, in the order
\* the method reads them
JSONParser_parse_action_data(self, data) ==
    Constructed(<<Required(data, "name", "Action"),
                  DictGet(data, "class", PTuple(<<>>)),
                  JSONParser_parse_method(data),
                  Required(data, "href", "Action"),
                  DictGet(data, "title", None),
                  DictGet(data, "type", None),
                  ParsedBy(DictGet(data, "fields", PTuple(<<>>)),
                           "Failed to parse action fields",
                           LAMBDA field_data : FacadeParse(self, "parse_field", field_data))>>,
                LAMBDA v : Action(v[1], v[4], v[2], v[3], v[5], v[7], v[6]))

JSONParser_parse_action(self, data) ==
    AsJson(data, LAMBDA json : JSONParser_parse_action_data(self, json))

\* relations, classes, target, title, target_media_type of a link
LinkItems(json, what) ==
    <<Required(json, "rel", what),
      DictGet(json, "class", PTuple(<<>>)),
      Required(json, "href", what),
      DictGet(json, "title", None),
      DictGet(json, "type", None)>>

\* a parse_link that wraps the error of Link in one of its own
JSONParser_parse_link_wrapped(data) ==
    AsJson(data, LAMBDA json :
        Constructed_wrapped(LinkItems(json, "Link"),
                            LAMBDA v : Link(v[1], v[3], v[2], v[4], v[5])))

JSONParser_parse_link(data) ==
    AsJson(data, LAMBDA json :
        Constructed(LinkItems(json, "Link"),
                    LAMBDA v : Link(v[1], v[3], v[2], v[4], v[5])))

JSONParser_parse_embedded_link(data) ==
    AsJson(data, LAMBDA json :
        Constructed(LinkItems(json, "Embedded link"),
                    LAMBDA v : EmbeddedLink(v[1], v[3], v[2], v[4], v[5])))

\* a choice by the value of 'href' instead of its presence
sub_entity_parser_by_value(data) ==
    LET href == GetItem(data, "href")
    IN IF ~href.ok /\ href.exc = "KeyError" THEN "parse_embedded_representation"
       ELSE IF ~href.ok THEN "error"
       ELSE IF href.val = None THEN "parse_embedded_representation"
       ELSE "parse_embedded_link"

\* the parse method JSONParser._parse_sub_entity hands the data to, or
\* "error" when the data are not a dictionary
sub_entity_parser(data) ==
    LET href == GetItem(data, "href")
    IN IF ~href.ok /\ href.exc = "KeyError" THEN "parse_embedded_representation"
       ELSE IF ~href.ok THEN "error"
       ELSE "parse_embedded_link"

\* the links and the actions of the data of an entity
ParseLinks(self, data, message) ==
    ParsedBy(DictGet(data, "links", PTuple(<<>>)), message,
             LAMBDA link_data : FacadeParse(self, "parse_link", link_data))

\* a parse of the first action only
ParseActions_first(self, data, message) ==
    ParsedBy(IF ItemsOf(DictGet(data, "actions", PTuple(<<>>))) = <<>>
             THEN DictGet(data, "actions", PTuple(<<>>))
             ELSE Ok(PList(<<ItemsOf(DictGet(data, "actions", PTuple(<<>>)))[1]>>)),
             message, LAMBDA action_data : FacadeParse(self, "parse_action", action_data))

ParseActions(self, data, message) ==
    ParsedBy(DictGet(data, "actions", PTuple(<<>>)), message,
             LAMBDA action_data : FacadeParse(self, "parse_action", action_data))

JSONParser_parse_sub_entity(self, data) ==
    IF sub_entity_parser(data) = "error" THEN ValueError("Sub entity data are not a dictionary")
    ELSE FacadeParse(self, sub_entity_parser(data), data)

ParseSubEntities(self, data, message) ==
    ParsedBy(DictGet(data, "entities", PTuple(<<>>)), message,
             LAMBDA sub_entity_data : JSONParser_parse_sub_entity(self, sub_entity_data))

\* classes, properties, sub-entities, links, actions, title
JSONParser_parse_entity(self, data) ==
    AsJson(data, LAMBDA json :
        Constructed(<<DictGet(json, "class", PTuple(<<>>)),
                      DictGet(json, "properties", PDict(EmptyMap)),
                      ParseSubEntities(self, json, "Failed to parse sub entities of entity"),
                      ParseLinks(self, json, "Failed to parse entity links"),
                      ParseActions(self, json, "Failed to parse entity actions"),
                      DictGet(json, "title", None)>>,
                    LAMBDA v : Entity(v[1], v[2], v[3], v[4], v[5], v[6])))

\* classes, properties, relations, sub-entities, links, actions, title
JSONParser_parse_embedded_representation(self, data) ==
    AsJson(data, LAMBDA json :
        Constructed(<<DictGet(json, "class", PTuple(<<>>)),
                      DictGet(json, "properties", PDict(EmptyMap)),
                      Required(json, "rel", "Embedded representation"),
                      ParseSubEntities(self, json,
                            "Failed to parse sub entities of embedded representation"),
                      ParseLinks(self, json, "Failed to parse links of embedded representation"),
                      ParseActions(self, json, "Failed to parse actions of embedded representation"),
                      DictGet(json, "title", None)>>,
                    LAMBDA v : EmbeddedRepresentation(v[3], v[1], v[2], v[4], v[5], v[6],
                                                      v[7])))

(***************************************************************************)
(* lila.serialization.json.action.ActionParser                             *)
(***************************************************************************)
\* parser.<method>(data) of the facade a component parser is bound to
FacadeParse(parser, method, data) ==
    IF method = parser.method THEN Replacement(parser, method, data)
    ELSE CASE method = "parse_field" -> JSONParser_parse_field(data)
           [] method = "parse_action" -> JSONParser_parse_action(parser, data)
           [] method = "parse_link" -> JSONParser_parse_link(data)
           [] method = "parse_embedded_link" -> JSONParser_parse_embedded_link(data)
           [] method = "parse_embedded_representation" ->
                JSONParser_parse_embedded_representation(parser, data)
           [] OTHER -> JSONParser_parse_entity(parser, data)

\* try: x = self._data[key] / except TypeError: "Failed to get <what> from
\* action data" / except KeyError: the default, or "Action data do not have
\* required '<key>' key" when there is none
ActionItem(data, key, what, required, default) ==
    LET value == GetItem(data, key)
    IN IF value.ok THEN value
       ELSE IF value.exc = "TypeError"
       THEN ValueError("Failed to get " \o what \o " from action data")
       ELSE IF required
       THEN ValueError("Action data do not have required '" \o key \o "' key")
       ELSE Ok(default)

ActionParser_parse_name(data) ==
    LET action_name == ActionItem(data, "name", "name", TRUE, None)
    IN IF ~action_name.ok THEN action_name ELSE Ok(StrOf(action_name.val))

ActionParser_parse_classes(data) ==
    LET action_classes == ActionItem(data, "class", "classes", FALSE, PTuple(<<>>))
        items == IF action_classes.ok THEN Iter(action_classes.val) ELSE action_classes
    IN IF ~action_classes.ok THEN action_classes
       ELSE IF ~items.ok THEN ValueError("Failed to iterate over classes from action data")
       ELSE Ok(PTuple([i \in DOMAIN items.val |-> StrOf(items.val[i])]))

ActionParser_parse_method(data) ==
    LET Found(method) ==
            IF ~method.ok THEN ValueError("Action data contain not supported method")
            ELSE method
        Parsed(action_method) ==
            IF ~action_method.ok THEN action_method ELSE Found(Method(action_method.val))
    IN Parsed(ActionItem(data, "method", "method", FALSE, Str("GET")))

ActionParser_parse_target(data) ==
    LET action_target == ActionItem(data, "href", "target", TRUE, None)
    IN IF ~action_target.ok THEN action_target ELSE Ok(StrOf(action_target.val))

ActionParser_parse_title(data) ==
    LET action_title == ActionItem(data, "title", "title", FALSE, None)
    IN IF ~action_title.ok THEN action_title ELSE Ok(OptStr(action_title.val))

\* try: iter(fields_data) / except TypeError; try: [parse(item) for item in
\* fields_data] / except Exception: "Failed to parse action's fields"
ParsedFields(action_fields_data, parse(_)) ==
    LET Parsed(outs) ==
            IF FirstFailure(outs) # 0 THEN ValueError("Failed to parse action's fields")
            ELSE Ok(PTuple(Vals(outs)))
    IN IF ~action_fields_data.ok THEN action_fields_data
       ELSE IF ~Iter(action_fields_data.val).ok
       THEN ValueError("Failed to iterate over fields data from action data")
       ELSE Parsed(Each([i \in DOMAIN ItemsOf(action_fields_data) |->
                            parse(ItemsOf(action_fields_data)[i])]))

ActionParser_parse_fields(data, parser) ==
    ParsedFields(ActionItem(data, "fields", "fields data", FALSE, PTuple(<<>>)),
                 LAMBDA field_data : FacadeParse(parser, "parse_field", field_data))

ActionParser_parse_encoding_type(data, parser) ==
    LET Parsed(action_encoding_type, fields) ==
            IF ~action_encoding_type.ok THEN action_encoding_type
            ELSE IF action_encoding_type.val.k # "none"
            THEN Ok(StrOf(action_encoding_type.val))
            ELSE IF ~fields.ok THEN fields
            ELSE IF fields.val.items # <<>> THEN Ok(Str(DefaultEncodingType))
            ELSE Ok(None)
    IN Parsed(ActionItem(data, "type", "encoding type", FALSE, None),
              ActionParser_parse_fields(data, parser))

ActionParser_parse(data, parser) ==
    Constructed(<<ActionParser_parse_name(data),
                  ActionParser_parse_classes(data),
                  ActionParser_parse_method(data),
                  ActionParser_parse_target(data),
                  ActionParser_parse_title(data),
                  ActionParser_parse_encoding_type(data, parser),
                  ActionParser_parse_fields(data, parser)>>,
                LAMBDA v : Action(v[1], v[4], v[2], v[3], v[5], v[7], v[6]))

\* the accessors of ActionParser, by name
ActionParserAccessors ==
    {"parse_name", "parse_classes", "parse_method", "parse_target", "parse_title",
     "parse_encoding_type", "parse_fields", "parse"}

ActionParser_call(accessor, data, parser) ==
    CASE accessor = "parse_name" -> ActionParser_parse_name(data)
      [] accessor = "parse_classes" -> ActionParser_parse_classes(data)
      [] accessor = "parse_method" -> ActionParser_parse_method(data)
      [] accessor = "parse_target" -> ActionParser_parse_target(data)
      [] accessor = "parse_title" -> ActionParser_parse_title(data)
      [] accessor = "parse_encoding_type" -> ActionParser_parse_encoding_type(data, parser)
      [] accessor = "parse_fields" -> ActionParser_parse_fields(data, parser)
      [] OTHER -> ActionParser_parse(data, parser)

(***************************************************************************)
(* The explored inputs.                                                    *)
(***************************************************************************)
\* marks an attribute a stand-in object lacks, or a key the data lack
Absent == [k |-> "absent"]

\* the attributes (keys) a choice gives a value to
Present(choice) == [a \in {x \in DOMAIN choice : choice[x] # Absent} |-> choice[a]]

StandIn(choice) == Obj("standin", Present(choice))

Data(choice) == PDict(Present(choice))

SeqsUpTo(S, n) == UNION {[1..m -> S] : m \in 0..n}

\* values that are not mappings: JSON ones, and object()
NonMappings == {None, PInt(1), Str("ab"), PList(<<>>), PList(<<Str("name")>>), Opaque}

\* ---- objects handed to the marshalers ----
FieldObjects ==
    {StandIn([name |-> n, classes |-> c, input_type |-> i, value |-> v, title |-> t]) :
        n \in {Absent, Str("n"), PInt(1)},
        c \in {Absent, PTuple(<<>>), PTuple(<<Str("c"), PInt(1)>>), None, Str("ab")},
        i \in {Absent, InputTypeMember("TEXT"), InputTypeMember("CHECKBOX"),
               Str("text"), Str("TEXT"), None},
        v \in {Absent, None, PInt(2)},
        t \in {Absent, None, Str("t")}}

\* fields nested in the explored actions: a Field, a stand-in that marshals,
\* and two that do not
NestedFields ==
    {Field(Str("f"), PTuple(<<>>), InputTypeMember("TEXT"), None, None).val,
     StandIn([name |-> Str("g"), classes |-> PList(<<>>), input_type |-> Str("search"),
              value |-> Str("v"), title |-> None]),
     StandIn([name |-> Str("h")]),
     None}

\* the attributes vary, then the fields
ActionObjects ==
    {StandIn([name |-> n, classes |-> c, method |-> m, target |-> Str("/t"), title |-> t,
              encoding_type |-> e, fields |-> f]) :
        n \in {Absent, Str("a")},
        c \in {PTuple(<<>>), None},
        m \in {Absent, MethodMember("GET"), MethodMember("PATCH"), Str("GET"), Str("get"),
               None},
        t \in {Absent, None},
        e \in {Absent, None, Str("application/json")},
        f \in {Absent, None, PTuple(<<>>)}}
    \cup
    {StandIn([name |-> Str("a"), classes |-> PTuple(<<>>), method |-> m, target |-> Str("/t"),
              title |-> None, encoding_type |-> None, fields |-> PTuple(f)]) :
        m \in {MethodMember("GET"), Str("GET")},
        f \in SeqsUpTo(NestedFields, MaxItems)}
    \cup {StandIn([name |-> Str("a"), classes |-> PTuple(<<>>), method |-> MethodMember("GET")])}

LinkObjects ==
    {StandIn([relations |-> r, classes |-> c, target |-> g, title |-> t,
              target_media_type |-> y]) :
        r \in {Absent, PTuple(<<>>), PTuple(<<Str("self"), PInt(1)>>), None},
        c \in {Absent, PTuple(<<Str("c")>>), PInt(1)},
        g \in {Absent, Str("/l"), None},
        t \in {Absent, None, Str("t")},
        y \in {Absent, None, Str("text/html")}}

\* sub-entities nested no deeper than d: stand-ins with and without a target.
\* The collections explored hold up to MaxItems sub-entities that nest
\* nothing, or one that nests down to MaxDepth.
RECURSIVE SubEntityObjects(_)
SubEntityObjects(d) ==
    {StandIn([relations |-> PTuple(<<Str("item")>>), classes |-> PTuple(<<>>),
              target |-> Str("/e"), title |-> None, target_media_type |-> None]),
     StandIn([relations |-> PTuple(<<Str("item")>>), classes |-> PTuple(<<>>),
              target |-> None, title |-> None, target_media_type |-> None,
              properties |-> PDict(EmptyMap), entities |-> PTuple(<<>>),
              links |-> PTuple(<<>>), actions |-> PTuple(<<>>)]),
     StandIn([relations |-> PTuple(<<Str("child")>>), classes |-> PTuple(<<>>),
              properties |-> PDict(EmptyMap), entities |-> PTuple(<<>>),
              links |-> PTuple(<<>>), actions |-> PTuple(<<>>), title |-> None]),
     StandIn([relations |-> PTuple(<<Str("broken")>>)])}
    \cup (IF d = 0 THEN {}
          ELSE {StandIn([relations |-> PTuple(<<Str("parent")>>), classes |-> PTuple(<<>>),
                         properties |-> PDict(EmptyMap), entities |-> PTuple(<<x>>),
                         links |-> PTuple(<<>>), actions |-> PTuple(<<>>), title |-> None]) :
                    x \in SubEntityObjects(d - 1)})

NestedLinks ==
    {StandIn([relations |-> PTuple(<<Str("self")>>), classes |-> PTuple(<<>>),
              target |-> Str("/l"), title |-> None, target_media_type |-> None]),
     StandIn([relations |-> None])}

NestedActions ==
    {StandIn([name |-> Str("a"), classes |-> PTuple(<<>>), method |-> MethodMember("GET"),
              target |-> Str("/t"), title |-> None, encoding_type |-> None,
              fields |-> PTuple(<<>>)]),
     StandIn([name |-> Str("b"), classes |-> PTuple(<<>>), method |-> Str("POST"),
              target |-> Str("/t"), title |-> None, encoding_type |-> None,
              fields |-> PTuple(<<>>)])}

PropertyValues ==
    {Absent, None, PDict(EmptyMap), PDict([p |-> PList(<<PInt(1), Str("2")>>)]),
     PyDict(<<<<PInt(1), Str("v")>>, <<Str("list"), PTuple(<<PInt(1), Str("2")>>)>>>>),
     PList(<<PTuple(<<Str("k"), PTuple(<<PInt(1)>>)>>)>>),
     PDict([p |-> Opaque])}

\* entities and embedded representations (with relations r): the
\* sub-entities vary, then the classes, properties and title, then the links
\* and actions
EntityLike(r) ==
    {StandIn([relations |-> r, classes |-> c, properties |-> PDict(EmptyMap), entities |-> e,
              links |-> PTuple(<<>>), actions |-> PTuple(<<>>), title |-> None]) :
        c \in {PTuple(<<Str("c")>>), None},
        e \in {Absent, None}
              \cup {PTuple(x) : x \in SeqsUpTo(SubEntityObjects(0), MaxItems)}
              \cup {PTuple(<<x>>) : x \in SubEntityObjects(MaxDepth)}}
    \cup
    {StandIn([relations |-> r, classes |-> c, properties |-> p, entities |-> PTuple(<<>>),
              links |-> PTuple(<<>>), actions |-> PTuple(<<>>), title |-> t]) :
        c \in {Absent, PTuple(<<>>)},
        p \in PropertyValues,
        t \in {Absent, None, Str("t")}}
    \cup
    {StandIn([relations |-> r, classes |-> PTuple(<<>>), properties |-> PDict(EmptyMap),
              entities |-> PTuple(<<>>), links |-> l, actions |-> a, title |-> None]) :
        l \in {Absent, None} \cup {PTuple(x) : x \in SeqsUpTo(NestedLinks, MaxItems)},
        a \in {Absent, None} \cup {PTuple(x) : x \in SeqsUpTo(NestedActions, MaxItems)}}

EntityObjects == EntityLike(Absent)

RepresentationObjects ==
    UNION {EntityLike(r) : r \in {PTuple(<<Str("item")>>), PTuple(<<>>)}}
    \cup {StandIn([classes |-> PTuple(<<>>)]), StandIn([relations |-> None])}

\* ---- data handed to the parsers ----
FieldData ==
    {Data([name |-> n, class |-> c, type |-> y, value |-> v, title |-> t]) :
        n \in {Absent, Str("n"), PInt(1)},
        c \in {Absent, PList(<<>>), PList(<<Str("c"), PInt(1)>>), PInt(5)},
        y \in {Absent, Str("text"), Str("ratio"), Str("TEXT"), Str("checkbox"), None},
        v \in {Absent, None, PInt(2)},
        t \in {Absent, Str("t")}}

NestedFieldData ==
    {Data([name |-> Str("f")]),
     Data([name |-> Str("g"), type |-> Str("search"), value |-> Str("v")]),
     Data([type |-> Str("text")])}

\* the keys vary, then the fields
ActionData ==
    {Data([name |-> n, class |-> c, method |-> m, href |-> h, title |-> Absent, type |-> y,
           fields |-> f]) :
        n \in {Absent, Str("a")},
        c \in {Absent, PList(<<Str("c")>>), PInt(5)},
        m \in {Absent, Str("GET"), Str("DELETE"), Str("get"), Str("Get"), None, PInt(1)},
        h \in {Absent, Str("/t")},
        y \in {Absent, None, Str("application/json"), Str("")},
        f \in {Absent, PList(<<>>), PList(<<Data([name |-> Str("f")])>>)}}
    \cup
    {Data([name |-> Str("a"), href |-> Str("/t"), title |-> t, type |-> y, fields |-> f]) :
        t \in {Absent, None, Str("t")},
        y \in {Absent, None, Str("application/json")},
        f \in {None, PInt(1)} \cup {PList(x) : x \in SeqsUpTo(NestedFieldData, MaxItems)}}

LinkData ==
    {Data([rel |-> r, class |-> c, href |-> h, title |-> t, type |-> y]) :
        r \in {Absent, PList(<<>>), PList(<<Str("self"), PInt(1)>>), PInt(5)},
        c \in {Absent, PList(<<Str("c")>>), PTuple(<<Str("c")>>), PInt(5)},
        h \in {Absent, Str("/l"), None},
        t \in {Absent, None, Str("t")},
        y \in {Absent, None, Str("text/html")}}

\* the items of an 'entities' array, nested no deeper than d
RECURSIVE SubEntityData(_)
SubEntityData(d) ==
    {Data([rel |-> PList(<<Str("item")>>), href |-> Str("/e")]),
     Data([rel |-> PList(<<Str("item")>>), href |-> None]),
     Data([rel |-> PList(<<Str("child")>>)]),
     Data([href |-> Str("/e")]),
     PInt(1), Str("ab"), None}
    \cup (IF d = 0 THEN {}
          ELSE {Data([rel |-> PList(<<Str("parent")>>), entities |-> PList(<<x>>)]) :
                    x \in SubEntityData(d - 1)})

NestedLinkData ==
    {Data([rel |-> PList(<<Str("self")>>), href |-> Str("/l")]), Data([rel |-> PList(<<>>)]), None}

NestedActionData ==
    {Data([name |-> Str("a"), href |-> Str("/t")]),
     Data([name |-> Str("b"), href |-> Str("/t"), method |-> Str("POST")]),
     Data([name |-> Str("a")])}

\* the data of entities and embedded representations (with 'rel' r)
EntityLikeData(r) ==
    {Data([rel |-> r, entities |-> PList(<<PList(<<>>), PDict(EmptyMap)>>)])}
    \cup
    {Data([rel |-> r, entities |-> e]) :
        e \in {Absent, None, PInt(1)}
              \cup {PList(x) : x \in SeqsUpTo(SubEntityData(0), MaxItems)}
              \cup {PList(<<x>>) : x \in SubEntityData(MaxDepth)}}
    \cup
    {Data([rel |-> r, class |-> c, properties |-> p, title |-> t]) :
        c \in {Absent, PList(<<Str("c")>>), PInt(5)},
        p \in {Absent, PDict(EmptyMap), PDict([p |-> PList(<<PInt(1)>>)]), PInt(5), None},
        t \in {Absent, None, Str("t")}}
    \cup
    {Data([rel |-> r, links |-> l, actions |-> a]) :
        l \in {Absent, None} \cup {PList(x) : x \in SeqsUpTo(NestedLinkData, MaxItems)},
        a \in {Absent, None} \cup {PList(x) : x \in SeqsUpTo(NestedActionData, MaxItems)}}

EntityData == EntityLikeData(Absent)

RepresentationData ==
    UNION {EntityLikeData(r) : r \in {Absent, PList(<<Str("item")>>), PList(<<>>)}}

\* ---- arguments of the constructors, for the round trips ----
\* the objects the constructor accepted among a set of outcomes
Accepted(outs) == {o.val : o \in {x \in outs : x.ok}}

Fields ==
    Accepted({Field(n, c, i, v, t) :
        n \in {Str("n"), PInt(1)},
        c \in {PTuple(<<>>), PList(<<Str("c"), PInt(1)>>), Str("ab")},
        i \in {InputTypeMember("TEXT"), InputTypeMember("CHECKBOX"), Str("text")},
        v \in {None, PInt(2), Str("v")},
        t \in {None, Str("t")}})

SomeFields ==
    Accepted({Field(Str("f"), PTuple(<<>>), InputTypeMember("TEXT"), None, None),
              Field(Str("g"), PTuple(<<>>), InputTypeMember("SEARCH"), Str("v"), None)})

Actions ==
    Accepted({Action(Str("a"), Str("/t"), c, m, t, PList(f), e) :
        c \in {PTuple(<<>>), PList(<<Str("c")>>)},
        m \in {MethodMember("GET"), MethodMember("PATCH"), Str("GET"), Str("POST"), Str("get")},
        t \in {None, Str("t")},
        f \in SeqsUpTo(SomeFields, MaxItems),
        e \in {None, Str("application/json")}})

LinkArguments ==
    [relations : {PTuple(<<>>), PList(<<Str("self")>>), PList(<<Str("a"), PInt(1)>>), Str("ab"),
                  PInt(5)},
     target : {Str("/l"), PInt(1)},
     classes : {PTuple(<<>>), PList(<<Str("c")>>)},
     title : {None, Str("t")},
     target_media_type : {None, Str("text/html")}]

Links ==
    Accepted({Link(a.relations, a.target, a.classes, a.title, a.target_media_type) :
                a \in LinkArguments})

EmbeddedLinks ==
    Accepted({EmbeddedLink(a.relations, a.target, a.classes, a.title, a.target_media_type) :
                a \in LinkArguments})

SomeLinks ==
    Accepted({Link(PTuple(<<Str("self")>>), Str("/l"), PTuple(<<>>), None, None),
              Link(PTuple(<<>>), Str("/m"), PTuple(<<>>), Str("t"), None)})

SomeActions ==
    Accepted({Action(Str("a"), Str("/t"), PTuple(<<>>), MethodMember("GET"), None,
                     PTuple(<<>>), None),
              Action(Str("b"), Str("/t"), PTuple(<<>>), MethodMember("POST"), None,
                     PTuple(<<>>), Str("application/json"))})

\* sub-entities nested no deeper than d
RECURSIVE SubEntities(_)
SubEntities(d) ==
    Accepted({EmbeddedLink(PTuple(<<Str("item")>>), Str("/e"), PTuple(<<>>), None, None),
              EmbeddedRepresentation(PTuple(<<Str("child")>>), PTuple(<<>>), PDict(EmptyMap),
                                     PTuple(<<>>), PTuple(<<>>), PTuple(<<>>), None)}
             \cup (IF d = 0 THEN {}
                   ELSE {EmbeddedRepresentation(PTuple(<<Str("parent")>>), PTuple(<<>>),
                                                PDict(EmptyMap), PTuple(<<x>>), PTuple(<<>>),
                                                PTuple(<<>>), None) :
                            x \in SubEntities(d - 1)}))

\* the arguments of Entity and EmbeddedRepresentation
EntityArguments ==
    [classes : {PTuple(<<>>)}, properties : {PDict(EmptyMap)},
     entities : {PList(x) : x \in SeqsUpTo(SubEntities(0), MaxItems)}
                \cup {PList(<<x>>) : x \in SubEntities(MaxDepth)},
     links : {PTuple(<<>>)}, actions : {PTuple(<<>>)}, title : {None}]
    \cup
    [classes : {PTuple(<<>>), PList(<<Str("c")>>)},
     properties : {PDict(EmptyMap), PDict([p |-> PTuple(<<PInt(1), Str("2")>>)]),
                   PyDict(<<<<PInt(1), Str("v")>>>>), PTuple(<<Str("ab")>>), PInt(5)},
     entities : {PTuple(<<>>)}, links : {PTuple(<<>>)}, actions : {PTuple(<<>>)},
     title : {None, Str("t")}]
    \cup
    [classes : {PTuple(<<>>)}, properties : {PDict(EmptyMap)}, entities : {PTuple(<<>>)},
     links : {PList(x) : x \in SeqsUpTo(SomeLinks, MaxItems)},
     actions : {PList(x) : x \in SeqsUpTo(SomeActions, MaxItems)},
     title : {None}]

Entities ==
    Accepted({Entity(a.classes, a.properties, a.entities, a.links, a.actions, a.title) :
                a \in EntityArguments})

EmbeddedRepresentations ==
    Accepted({EmbeddedRepresentation(r, a.classes, a.properties, a.entities, a.links,
                                     a.actions, a.title) :
                r \in {PTuple(<<Str("item")>>), PTuple(<<>>)}, a \in EntityArguments})

(***************************************************************************)
(* The calls a caller makes.  A call records the operation, its argument,  *)
(* its outcome and the facade methods the sub-entities were handed to; the *)
(* caller takes the outcome before it makes the next call.                 *)
(***************************************************************************)
\* the facade calls made for the items of a collection: the loop stops at
\* the first item whose call fails
Dispatched(items, methods, outs) ==
    LET results == Each(outs)
    IN [i \in 1..(IF FirstFailure(results) # 0 THEN FirstFailure(results) ELSE Len(items)) |->
            [method |-> methods[i], arg |-> items[i]]]

\* the calls JSONMarshaler.marshal_entity / marshal_embedded_representation
\* make for the sub-entities, once the attributes before them are marshaled
JSONMarshaler_calls(obj, before) ==
    LET Made(entities) ==
            IF FirstFailure(before) # 0 \/ ~entities.ok THEN <<>>
            ELSE Dispatched(entities.val,
                    [i \in DOMAIN entities.val |->
                        JSONMarshaler_sub_entity_route(entities.val[i])],
                    [i \in DOMAIN entities.val |->
                        JSONMarshaler_marshal_sub_entity(Default, entities.val[i])])
    IN Made(GetList(obj, "entities", "sub entities"))

\* the calls marshal_entities of a component marshaler makes
Marshaler_calls(obj, marshaler, before) ==
    LET Made(entities) ==
            IF FirstFailure(before) # 0 \/ ~entities.ok THEN <<>>
            ELSE Dispatched(entities.val,
                    [i \in DOMAIN entities.val |-> sub_entity_route(entities.val[i])],
                    [i \in DOMAIN entities.val |->
                        marshal_sub_entity(entities.val[i], marshaler)])
    IN Made(GetList(obj, "entities", "sub entities"))

\* the items of the 'entities' array of the data of an entity
EntitiesData(data) == ItemsOf(DictGet(data, "entities", PTuple(<<>>)))

\* the calls JSONParser.parse_entity / parse_embedded_representation make
\* for the items of 'entities': none for an item that is not a dictionary
Parser_calls(data, before) ==
    LET Made(items) ==
            SelectSeq(Dispatched(items,
                                 [i \in DOMAIN items |-> sub_entity_parser(items[i])],
                                 [i \in DOMAIN items |-> JSONParser_parse_sub_entity(Default, items[i])]),
                      LAMBDA call : call.method # "error")
        Items(json) == IF json.ok THEN EntitiesData(json.val) ELSE <<>>
    IN IF FirstFailure(before) # 0 THEN <<>> ELSE Made(Items(ensure_json(data)))

\* the calls of parser.parse_field one run of ActionParser.parse_fields makes
parse_fields_calls(data, parser) ==
    LET Made(action_fields_data) ==
            IF ~action_fields_data.ok \/ ~Iter(action_fields_data.val).ok THEN <<>>
            ELSE Dispatched(ItemsOf(action_fields_data),
                            [i \in DOMAIN ItemsOf(action_fields_data) |-> "parse_field"],
                            [i \in DOMAIN ItemsOf(action_fields_data) |->
                                FacadeParse(parser, "parse_field",
                                            ItemsOf(action_fields_data)[i])])
    IN Made(ActionItem(data, "fields", "fields data", FALSE, PTuple(<<>>)))

\* parse_encoding_type runs self.parse_fields() when 'type' is None or absent
parse_encoding_type_calls(data, parser) ==
    LET Made(action_encoding_type) ==
            IF action_encoding_type.ok /\ action_encoding_type.val.k = "none"
            THEN parse_fields_calls(data, parser)
            ELSE <<>>
    IN Made(ActionItem(data, "type", "encoding type", FALSE, None))

\* the calls of parser.parse_field an accessor of ActionParser makes; parse
\* evaluates the keyword arguments in order up to the first that raises
ActionParser_calls(accessor, data, parser) ==
    CASE accessor = "parse_fields" -> parse_fields_calls(data, parser)
      [] accessor = "parse_encoding_type" -> parse_encoding_type_calls(data, parser)
      [] accessor = "parse" ->
            IF FirstFailure(<<ActionParser_parse_name(data), ActionParser_parse_classes(data),
                              ActionParser_parse_method(data), ActionParser_parse_target(data),
                              ActionParser_parse_title(data)>>) # 0
            THEN <<>>
            ELSE parse_encoding_type_calls(data, parser)
                 \o (IF ActionParser_parse_encoding_type(data, parser).ok
                     THEN parse_fields_calls(data, parser) ELSE <<>>)
      [] OTHER -> <<>>

\* the threads that call the facade, each with the frame of its call: the
\* operation, its argument, the component instance it made, the values its
\* statements computed so far and its outcome once it ended; instances are
\* the component marshalers and parsers that exist
Threads == {"t1", "t2"}

Free == [k |-> "free"]

IdleFrame ==
    [x |-> "idle", input |-> None, self |-> "none", values |-> <<>>, done |-> FALSE,
     result |-> Ok(None), met |-> FALSE]

\* the parse methods of JSONParser, as the calls name them
JSONParserCalls ==
    {prefix \o type : prefix \in {"JSONParser.parse_", "replaced.JSONParser.parse_",
                                   "subclass.parse_"},
                      type \in {"field", "action", "link", "embedded_link", "entity",
                                "embedded_representation"}}

\* the data of the caller once json.loads(json.dumps(data)) normalized them
\* where they are
ensure_json_argument_adjusted(data) ==
    IF JsonCopy(data).ok THEN JsonCopy(data).val ELSE data

\* the data of the caller after data = _ensure_json(data): json.dumps reads
\* them and json.loads builds new objects, which the local name is bound to
ensure_json_argument(data) == data

\* the argument of a call as the caller reads it after the call: a parse
\* method of JSONParser works on the copy, and no other statement of a
\* marshal or parse method assigns to an item or an attribute of its argument
Argument_after(name, input) ==
    IF name \in JSONParserCalls THEN ensure_json_argument(input) ELSE input

CallOn(instance, name, input, original, wired, result, made) ==
    /\ after' = Argument_after(name, input)
    /\ UNCHANGED <<frames, instances>>
    /\ op' = name
    /\ arg' = input
    /\ orig' = original
    /\ wire' = wired
    /\ out' = result
    /\ calls' = made
    /\ facade' = instance

Call(name, input, original, wired, result, made) ==
    CallOn(Default, name, input, original, wired, result, made)

Init ==
    /\ op = "idle"
    /\ arg = None
    /\ orig = Ok(None)
    /\ wire = Ok(None)
    /\ out = Ok(None)
    /\ calls = <<>>
    /\ facade = Default
    /\ after = None
    /\ frames = [t \in Threads |-> IdleFrame]
    /\ instances = [i \in Threads |-> Free]

\* the caller takes the outcome of the call
Return ==
    /\ op # "idle"
    /\ op' = "idle"
    /\ arg' = None
    /\ orig' = Ok(None)
    /\ wire' = Ok(None)
    /\ out' = Ok(None)
    /\ calls' = <<>>
    /\ facade' = Default
    /\ after' = None
    /\ UNCHANGED <<frames, instances>>

\* ---- JSONMarshaler ----
MarshalField ==
    /\ op = "idle"
    /\ \E field \in FieldObjects \cup Fields :
        Call("JSONMarshaler.marshal_field", field, Ok(None), Ok(None),
             JSONMarshaler_marshal_field(field), <<>>)

MarshalAction ==
    /\ op = "idle"
    /\ \E action \in ActionObjects \cup Actions :
        Call("JSONMarshaler.marshal_action", action, Ok(None), Ok(None),
             JSONMarshaler_marshal_action(Default, action), <<>>)

MarshalLink ==
    /\ op = "idle"
    /\ \E link \in LinkObjects \cup Links :
        Call("JSONMarshaler.marshal_link", link, Ok(None), Ok(None),
             JSONMarshaler_marshal_link(link), <<>>)

MarshalEmbeddedLink ==
    /\ op = "idle"
    /\ \E embedded_link \in LinkObjects \cup EmbeddedLinks :
        Call("JSONMarshaler.marshal_embedded_link", embedded_link, Ok(None), Ok(None),
             JSONMarshaler_marshal_embedded_link(embedded_link), <<>>)

MarshalEntity ==
    /\ op = "idle"
    /\ \E entity \in EntityObjects \cup Entities :
        Call("JSONMarshaler.marshal_entity", entity, Ok(None), Ok(None),
             JSONMarshaler_marshal_entity(Default, entity),
             JSONMarshaler_calls(entity,
                <<GetStrList(entity, "classes", "entity's classes"),
                  GetProperties(entity, "entity's properties")>>))

MarshalEmbeddedRepresentation ==
    /\ op = "idle"
    /\ \E embedded_representation \in RepresentationObjects \cup EmbeddedRepresentations :
        Call("JSONMarshaler.marshal_embedded_representation", embedded_representation,
             Ok(None), Ok(None),
             JSONMarshaler_marshal_embedded_representation(Default, embedded_representation),
             JSONMarshaler_calls(embedded_representation,
                <<GetStrList(embedded_representation, "relations", "relations"),
                  GetStrList(embedded_representation, "classes", "classes"),
                  GetProperties(embedded_representation, "properties")>>))

\* ---- the component marshalers, bound to a JSONMarshaler ----
FieldMarshalerMarshal ==
    /\ op = "idle"
    /\ \E field \in FieldObjects \cup Fields :
        Call("FieldMarshaler.marshal", field, Ok(None), Ok(None),
             FieldMarshaler_marshal(field), <<>>)

ActionMarshalerMarshal ==
    /\ op = "idle"
    /\ \E action \in ActionObjects \cup Actions :
        Call("ActionMarshaler.marshal", action, Ok(None), Ok(None),
             ActionMarshaler_marshal(action, Default), <<>>)

LinkMarshalerMarshal ==
    /\ op = "idle"
    /\ \E link \in LinkObjects \cup Links :
        Call("LinkMarshaler.marshal", link, Ok(None), Ok(None),
             LinkMarshaler_marshal(link), <<>>)

EmbeddedLinkMarshalerMarshal ==
    /\ op = "idle"
    /\ \E embedded_link \in LinkObjects \cup EmbeddedLinks :
        Call("EmbeddedLinkMarshaler.marshal", embedded_link, Ok(None), Ok(None),
             EmbeddedLinkMarshaler_marshal(embedded_link), <<>>)

EntityMarshalerMarshalEntities ==
    /\ op = "idle"
    /\ \E entity \in EntityObjects \cup Entities :
        Call("EntityMarshaler.marshal_entities", entity, Ok(None), Ok(None),
             EntityMarshaler_marshal_entities(entity, Default),
             Marshaler_calls(entity, Default, <<>>))

EntityMarshalerMarshal ==
    /\ op = "idle"
    /\ \E entity \in EntityObjects \cup Entities :
        Call("EntityMarshaler.marshal", entity, Ok(None), Ok(None),
             EntityMarshaler_marshal(entity, Default),
             Marshaler_calls(entity, Default,
                <<GetStrList(entity, "classes", "entity's classes"),
                  GetProperties(entity, "entity's properties")>>))

EmbeddedRepresentationMarshalerMarshalEntities ==
    /\ op = "idle"
    /\ \E embedded_representation \in RepresentationObjects \cup EmbeddedRepresentations :
        Call("EmbeddedRepresentationMarshaler.marshal_entities", embedded_representation,
             Ok(None), Ok(None),
             EmbeddedRepresentationMarshaler_marshal_entities(embedded_representation,
                                                              Default),
             Marshaler_calls(embedded_representation, Default, <<>>))

EmbeddedRepresentationMarshalerMarshal ==
    /\ op = "idle"
    /\ \E embedded_representation \in RepresentationObjects \cup EmbeddedRepresentations :
        Call("EmbeddedRepresentationMarshaler.marshal", embedded_representation,
             Ok(None), Ok(None),
             EmbeddedRepresentationMarshaler_marshal(embedded_representation, Default),
             Marshaler_calls(embedded_representation, Default,
                <<GetStrList(embedded_representation, "relations", "relations"),
                  GetStrList(embedded_representation, "classes", "classes"),
                  GetProperties(embedded_representation, "properties")>>))

\* ---- JSONParser ----
ParseField ==
    /\ op = "idle"
    /\ \E data \in FieldData \cup NonMappings :
        Call("JSONParser.parse_field", data, Ok(None), Ok(None),
             JSONParser_parse_field(data), <<>>)

ParseAction ==
    /\ op = "idle"
    /\ \E data \in ActionData \cup NonMappings :
        Call("JSONParser.parse_action", data, Ok(None), Ok(None),
             JSONParser_parse_action(Default, data), <<>>)

ParseLink ==
    /\ op = "idle"
    /\ \E data \in LinkData \cup NonMappings :
        Call("JSONParser.parse_link", data, Ok(None), Ok(None),
             JSONParser_parse_link(data), <<>>)

ParseEmbeddedLink ==
    /\ op = "idle"
    /\ \E data \in LinkData \cup NonMappings :
        Call("JSONParser.parse_embedded_link", data, Ok(None), Ok(None),
             JSONParser_parse_embedded_link(data), <<>>)

ParseEntity ==
    /\ op = "idle"
    /\ \E data \in EntityData \cup NonMappings :
        Call("JSONParser.parse_entity", data, Ok(None), Ok(None),
             JSONParser_parse_entity(Default, data),
             Parser_calls(data, <<DictGet(data, "class", PTuple(<<>>))>>))

ParseEmbeddedRepresentation ==
    /\ op = "idle"
    /\ \E data \in RepresentationData \cup NonMappings :
        Call("JSONParser.parse_embedded_representation", data, Ok(None), Ok(None),
             JSONParser_parse_embedded_representation(Default, data),
             Parser_calls(data, <<DictGet(data, "class", PTuple(<<>>)),
                                  Required(data, "rel", "Embedded representation")>>))

\* ---- ActionParser, bound to a JSONParser ----
ActionParserCall ==
    /\ op = "idle"
    /\ \E accessor \in ActionParserAccessors, data \in ActionData \cup NonMappings :
        Call("ActionParser." \o accessor, data, Ok(None), Ok(None),
             ActionParser_call(accessor, data, Default),
             ActionParser_calls(accessor, data, Default))

\* ---- parse(marshal(object)) of an object its constructor accepted ----
\* the outcome of parsing what was marshaled, the failure when none was
Parsed(method, wired) == IF wired.ok THEN FacadeParse(Default, method, wired.val) ELSE wired

RoundTrip(name, object, method, wired) ==
    Call(name, object, Ok(object), wired, Parsed(method, wired),
         IF wired.ok /\ method \in {"parse_entity", "parse_embedded_representation"}
         THEN Parser_calls(wired.val, <<>>) ELSE <<>>)

RoundTripField ==
    /\ op = "idle"
    /\ \E field \in Fields :
        RoundTrip("round_trip_field", field, "parse_field", JSONMarshaler_marshal_field(field))

RoundTripAction ==
    /\ op = "idle"
    /\ \E action \in Actions :
        RoundTrip("round_trip_action", action, "parse_action",
                  JSONMarshaler_marshal_action(Default, action))

RoundTripLink ==
    /\ op = "idle"
    /\ \E link \in Links :
        RoundTrip("round_trip_link", link, "parse_link", JSONMarshaler_marshal_link(link))

RoundTripEmbeddedLink ==
    /\ op = "idle"
    /\ \E embedded_link \in EmbeddedLinks :
        RoundTrip("round_trip_embedded_link", embedded_link, "parse_embedded_link",
                  JSONMarshaler_marshal_embedded_link(embedded_link))

RoundTripEntity ==
    /\ op = "idle"
    /\ \E entity \in Entities :
        RoundTrip("round_trip_entity", entity, "parse_entity",
                  JSONMarshaler_marshal_entity(Default, entity))

RoundTripEmbeddedRepresentation ==
    /\ op = "idle"
    /\ \E embedded_representation \in EmbeddedRepresentations :
        RoundTrip("round_trip_embedded_representation", embedded_representation,
                  "parse_embedded_representation",
                  JSONMarshaler_marshal_embedded_representation(Default, embedded_representation))

\* ---- a subclass of a facade that redefines one factory attribute ----
ComponentTypes ==
    <<"field", "action", "link", "embedded_link", "embedded_representation", "entity">>

\* class _CustomFieldMarshaler(JSONMarshaler):
\*     create_field_marshaler = _CustomMarshaler("Custom marshaled field")
\* the data the substituted component returns from marshal() / parse()
Custom(factory) == Str("Custom " \o factory)

\* the objects and the data the subclass is called with, by component type
Components ==
    [field |-> SomeFields, action |-> SomeActions, link |-> SomeLinks,
     embedded_link |-> EmbeddedLinks, embedded_representation |-> EmbeddedRepresentations,
     entity |-> Entities]

ComponentData ==
    [field |-> FieldData, action |-> ActionData, link |-> LinkData,
     embedded_link |-> LinkData, embedded_representation |-> RepresentationData,
     entity |-> EntityData]

\* marshal_<type> of JSONMarshaler reads no attribute of the marshaler, so
\* the subclass inherits the operation as it is
SubclassMarshal ==
    /\ op = "idle"
    /\ \E i \in DOMAIN ComponentTypes, j \in DOMAIN ComponentTypes :
        \E obj \in Components[ComponentTypes[j]] :
            CallOn(Facade("JSONMarshaler", "create_" \o ComponentTypes[i] \o "_marshaler"),
                   "subclass.marshal_" \o ComponentTypes[j], obj, Ok(None), Ok(None),
                   FacadeMarshal(Facade("JSONMarshaler",
                                        "create_" \o ComponentTypes[i] \o "_marshaler"),
                                 "marshal_" \o ComponentTypes[j], obj), <<>>)

\* the data that differ by their nested components only
PlainData(data) ==
    {json \in data :
        DOMAIN json.m \subseteq {"name", "href", "rel", "fields", "links", "actions", "entities"}}

\* parse_<type> of JSONParser reads no attribute of the parser either
SubclassParse ==
    /\ op = "idle"
    /\ \E i \in DOMAIN ComponentTypes, j \in DOMAIN ComponentTypes :
        \E data \in PlainData(ComponentData[ComponentTypes[j]]) :
            CallOn(Facade("JSONParser", "create_" \o ComponentTypes[i] \o "_parser"),
                   "subclass.parse_" \o ComponentTypes[j], data, Ok(None), Ok(None),
                   FacadeParse(Facade("JSONParser",
                                      "create_" \o ComponentTypes[i] \o "_parser"),
                               "parse_" \o ComponentTypes[j], data), <<>>)

\* ---- a facade one of whose methods is replaced ----
\* the exceptions a replacement raises
Raised == {"Exception", "AttributeError", "TypeError", "ValueError"}

\* the items of a collection of an object or of data
NestedItems(obj, attr) ==
    Range(ItemsOf(IF obj.k = "obj" THEN GetAttr(obj, attr) ELSE GetItem(obj, attr)))

\* the facades with one method replaced: by one that returns data of its
\* own for every item, or by one that raises for one item of the collection
\* the method is called for
Replacing(cls, methods, obj) ==
    {Instance(cls, "none", method, "none", Nothing) : method \in DOMAIN methods}
    \cup UNION {{Instance(cls, "none", method, raises, poison) :
                    raises \in Raised, poison \in NestedItems(obj, methods[method])} :
                method \in DOMAIN methods}

\* the methods the nested components are handed to, and the collection each
\* is called for
NestedMarshalMethods ==
    [marshal_field |-> "fields", marshal_link |-> "links", marshal_action |-> "actions",
     marshal_embedded_link |-> "entities", marshal_embedded_representation |-> "entities"]

\* the objects that differ by their nested components only
Plain(objects) ==
    {obj \in objects :
        /\ obj.attrs.classes = PTuple(<<>>)
        /\ obj.attrs.title = None
        /\ obj.cls = "Action" => obj.attrs.method = MethodMember("GET")
        /\ obj.cls = "Action" => obj.attrs.encoding_type # Str("application/json")}

\* the operations that marshal nested components, and what they are given
MarshalContainers ==
    [x \in {"JSONMarshaler.marshal_action", "ActionMarshaler.marshal",
            "ActionMarshaler.marshal_fields"} |-> Plain(Actions)]
    @@ [x \in {"JSONMarshaler.marshal_entity", "EntityMarshaler.marshal",
               "EntityMarshaler.marshal_entities"} |-> Plain(Entities)]
    @@ [x \in {"JSONMarshaler.marshal_embedded_representation",
               "EmbeddedRepresentationMarshaler.marshal",
               "EmbeddedRepresentationMarshaler.marshal_entities"} |->
            Plain(EmbeddedRepresentations)]

ContainerMarshal(x, marshaler, obj) ==
    CASE x = "JSONMarshaler.marshal_action" -> JSONMarshaler_marshal_action(marshaler, obj)
      [] x = "ActionMarshaler.marshal" -> ActionMarshaler_marshal(obj, marshaler)
      [] x = "ActionMarshaler.marshal_fields" -> ActionMarshaler_marshal_fields(obj, marshaler)
      [] x = "JSONMarshaler.marshal_entity" -> JSONMarshaler_marshal_entity(marshaler, obj)
      [] x = "EntityMarshaler.marshal" -> EntityMarshaler_marshal(obj, marshaler)
      [] x = "EntityMarshaler.marshal_entities" ->
            EntityMarshaler_marshal_entities(obj, marshaler)
      [] x = "JSONMarshaler.marshal_embedded_representation" ->
            JSONMarshaler_marshal_embedded_representation(marshaler, obj)
      [] x = "EmbeddedRepresentationMarshaler.marshal" ->
            EmbeddedRepresentationMarshaler_marshal(obj, marshaler)
      [] OTHER -> EmbeddedRepresentationMarshaler_marshal_entities(obj, marshaler)

ReplacedMarshal ==
    /\ op = "idle"
    /\ \E x \in DOMAIN MarshalContainers :
        \E obj \in MarshalContainers[x] :
            \E marshaler \in Replacing("JSONMarshaler", NestedMarshalMethods, obj) :
                CallOn(marshaler, "replaced." \o x, obj, Ok(None), Ok(None),
                       ContainerMarshal(x, marshaler, obj), <<>>)

NestedParseMethods ==
    [parse_field |-> "fields", parse_link |-> "links", parse_action |-> "actions",
     parse_embedded_link |-> "entities", parse_embedded_representation |-> "entities"]

ParseContainers ==
    [x \in {"JSONParser.parse_action", "ActionParser.parse", "ActionParser.parse_fields"} |->
        PlainData(ActionData)]
    @@ [x \in {"JSONParser.parse_entity"} |-> PlainData(EntityData)]
    @@ [x \in {"JSONParser.parse_embedded_representation"} |-> PlainData(RepresentationData)]

ContainerParse(x, parser, data) ==
    CASE x = "JSONParser.parse_action" -> JSONParser_parse_action(parser, data)
      [] x = "ActionParser.parse" -> ActionParser_parse(data, parser)
      [] x = "ActionParser.parse_fields" -> ActionParser_parse_fields(data, parser)
      [] x = "JSONParser.parse_entity" -> JSONParser_parse_entity(parser, data)
      [] OTHER -> JSONParser_parse_embedded_representation(parser, data)

ReplacedParse ==
    /\ op = "idle"
    /\ \E x \in DOMAIN ParseContainers :
        \E data \in ParseContainers[x] :
            \E parser \in Replacing("JSONParser", NestedParseMethods, data) :
                CallOn(parser, "replaced." \o x, data, Ok(None), Ok(None),
                       ContainerParse(x, parser, data), <<>>)

\* ---- lila.core.common.adjust_properties ----
\* the properties the function is given: dictionaries with keys of any kind,
\* iterables of pairs, nested values, values JSON has not, and values that
\* are no dictionary
PropertiesGiven ==
    (PropertyValues \ {Absent})
    \cup {a.properties : a \in EntityArguments}
    \cup {PyDict(<<<<None, None>>>>),
          PyDict(<<<<PInt(1), Str("a")>>, <<Str("1"), Str("b")>>>>),
          PyDict(<<<<Str("iterable"),
                     PTuple(<<Str("value1"), PyDict(<<<<PInt(1), PTuple(<<>>)>>>>)>>)>>>>),
          PDict([p |-> PDict([q |-> PTuple(<<PInt(1)>>)])]),
          PList(<<PTuple(<<Str("k"), Opaque>>)>>),
          PList(<<PInt(1)>>),
          Str("ab")}

\* adjust_properties(properties), and adjust_properties of what it returned
AdjustProperties ==
    /\ op = "idle"
    /\ \E properties \in PropertiesGiven :
        LET Twice(adjusted) ==
                Call("adjust_properties", properties, Ok(None),
                     IF adjusted.ok THEN adjust_properties(adjusted.val) ELSE Ok(None),
                     adjusted, <<>>)
        IN Twice(adjust_properties(properties))

\* ---- lila.serialization.marshaler.Marshaler, the base class ----
\* the methods the class defines and the message each raises
Marshaler_methods ==
    [marshal_field |-> "Marshaler does not support siren fields",
     marshal_action |-> "Marshaler does not support siren actions",
     marshal_link |-> "Marshaler does not support siren links",
     marshal_embedded_link |-> "Marshaler does not support embedded siren links"]

\* Marshaler().<method>(obj): a method the class does not define is an
\* AttributeError of the attribute lookup
Marshaler_call(method, obj) ==
    IF method \in DOMAIN Marshaler_methods
    THEN Err("NotImplementedError", Marshaler_methods[method])
    ELSE Err("AttributeError", "'Marshaler' object has no attribute '" \o method \o "'")

BaseMarshal ==
    /\ op = "idle"
    /\ \E i \in DOMAIN ComponentTypes :
        \E obj \in UNION {Components[ComponentTypes[j]] : j \in DOMAIN ComponentTypes}
                    \cup NonMappings :
            CallOn(Facade("Marshaler", "none"), "Marshaler.marshal_" \o ComponentTypes[i], obj,
                   Ok(None), Ok(None), Marshaler_call("marshal_" \o ComponentTypes[i], obj),
                   <<>>)

(***************************************************************************)
(* Calls that run at the same time.  Each thread runs one call on the      *)
(* facade JSONMarshaler() / JSONParser() that all share, statement by      *)
(* statement; another thread may run between any two of its statements.    *)
(***************************************************************************)
\* the accessors ActionParser.parse and ActionMarshaler.marshal call, in the
\* order of the keyword arguments and of the dictionary literal
ActionParserSteps ==
    <<"parse_name", "parse_classes", "parse_method", "parse_target", "parse_title",
      "parse_encoding_type", "parse_fields">>

ActionMarshalerSteps ==
    <<"marshal_name", "marshal_classes", "marshal_method", "marshal_target", "marshal_title",
      "marshal_encoding_type", "marshal_fields">>

ActionMarshaler_call(accessor, action, marshaler) ==
    CASE accessor = "marshal_name" -> ActionMarshaler_marshal_name(action)
      [] accessor = "marshal_classes" -> ActionMarshaler_marshal_classes(action)
      [] accessor = "marshal_method" -> ActionMarshaler_marshal_method(action)
      [] accessor = "marshal_target" -> ActionMarshaler_marshal_target(action)
      [] accessor = "marshal_title" -> ActionMarshaler_marshal_title(action)
      [] accessor = "marshal_encoding_type" -> ActionMarshaler_marshal_encoding_type(action)
      [] OTHER -> ActionMarshaler_marshal_fields(action, marshaler)

\* the statements of a call: the accessors of a component, the copy and the
\* rest of JSONParser.parse_action, the body of JSONMarshaler.marshal_action
StepsOf ==
    [x \in {"ActionParser.parse"} |-> ActionParserSteps]
    @@ [x \in {"ActionMarshaler.marshal"} |-> ActionMarshalerSteps]
    @@ [x \in {"JSONParser.parse_action"} |-> <<"_ensure_json", "parse_action">>]
    @@ [x \in {"JSONMarshaler.marshal_action"} |-> <<"marshal_action">>]

ComponentCalls == {"ActionParser.parse", "ActionMarshaler.marshal"}

\* what the threads call the operations with
ConcurrentInputs ==
    [x \in {"ActionParser.parse", "JSONParser.parse_action"} |->
        {Data([name |-> Str("a"), href |-> Str("/t"),
               fields |-> PList(<<Data([name |-> Str("f")])>>)]),
         Data([name |-> Str("b"), href |-> Str("/u"), method |-> Str("DELETE"),
               class |-> PList(<<Str("c")>>)]),
         Data([name |-> Str("a"), method |-> Str("get")])}]
    @@ [x \in {"ActionMarshaler.marshal", "JSONMarshaler.marshal_action"} |->
        {StandIn([name |-> Str("a"), classes |-> PTuple(<<>>), method |-> m,
                  target |-> Str("/t"), title |-> None, encoding_type |-> None,
                  fields |-> PTuple(<<>>)]) : m \in {Str("GET"), MethodMember("POST")}}
        \cup {StandIn([name |-> Str("b"), classes |-> PTuple(<<Str("c")>>)])}]

\* the component instance a frame works on: self
Own_shared(heap, frame) == heap[CHOOSE i \in DOMAIN heap : heap[i] # Free]

Own(heap, frame) == heap[frame.self]

\* the outcome of the next statement of a frame
StepOutcome(frame, heap) ==
    LET i == Len(frame.values) + 1
    IN CASE frame.x = "ActionParser.parse" ->
                ActionParser_call(ActionParserSteps[i], Own(heap, frame).data,
                                  Own(heap, frame).facade)
         [] frame.x = "ActionMarshaler.marshal" ->
                ActionMarshaler_call(ActionMarshalerSteps[i], Own(heap, frame).data,
                                     Own(heap, frame).facade)
         [] frame.x = "JSONParser.parse_action" /\ i = 1 -> ensure_json(frame.input)
         [] frame.x = "JSONParser.parse_action" ->
                JSONParser_parse_action_data(Default, frame.values[1].val)
         [] OTHER -> JSONMarshaler_marshal_action(Default, frame.input)

\* what the call returns once its statements have their values
Ended(frame) ==
    CASE frame.x = "ActionParser.parse" ->
            Constructed(frame.values,
                        LAMBDA v : Action(v[1], v[4], v[2], v[3], v[5], v[7], v[6]))
      [] frame.x = "ActionMarshaler.marshal" -> DictOf(ActionKeys, frame.values)
      [] OTHER -> frame.values[Len(frame.values)]

Running(frame) == frame.x # "idle" /\ ~frame.done

\* another thread is in the middle of its call
Overlaps(t) == \E u \in Threads \ {t} : Running(frames[u]) /\ frames[u].values # <<>>

\* a thread calls an operation; a component call makes its own instance
Start(t) ==
    /\ frames[t].x = "idle"
    /\ \E x \in DOMAIN ConcurrentInputs :
        \E input \in ConcurrentInputs[x] :
            LET made == CHOOSE i \in Threads : instances[i] = Free
            IN /\ frames' = [frames EXCEPT ![t] =
                                [IdleFrame EXCEPT !.x = x, !.input = input,
                                    !.self = IF x \in ComponentCalls THEN made ELSE "none"]]
               /\ instances' = IF x \in ComponentCalls
                               THEN [instances EXCEPT ![made] =
                                        [k |-> "instance", data |-> input, facade |-> Default]]
                               ELSE instances
    /\ UNCHANGED <<op, arg, orig, wire, out, calls, facade, after>>

\* a thread runs its next statement; a statement that raises ends the call
Step(t) ==
    /\ Running(frames[t])
    /\ Len(frames[t].values) < Len(StepsOf[frames[t].x])
    /\ LET Stepped(outcome) ==
                frames' = [frames EXCEPT ![t] =
                    IF outcome.ok
                    THEN [@ EXCEPT !.values = Append(@, outcome), !.met = @ \/ Overlaps(t)]
                    ELSE [@ EXCEPT !.done = TRUE, !.result = outcome, !.met = @ \/ Overlaps(t)]]
       IN Stepped(StepOutcome(frames[t], instances))
    /\ UNCHANGED <<op, arg, orig, wire, out, calls, facade, after, instances>>

\* the call returns
Finish(t) ==
    /\ Running(frames[t])
    /\ Len(frames[t].values) = Len(StepsOf[frames[t].x])
    /\ frames' = [frames EXCEPT ![t] = [@ EXCEPT !.done = TRUE, !.result = Ended(frames[t])]]
    /\ UNCHANGED <<op, arg, orig, wire, out, calls, facade, after, instances>>

\* the thread takes the outcome; its component instance is no more
Take(t) ==
    /\ frames[t].done
    /\ frames' = [frames EXCEPT ![t] = IdleFrame]
    /\ instances' = [i \in Threads |-> IF i = frames[t].self THEN Free ELSE instances[i]]
    /\ UNCHANGED <<op, arg, orig, wire, out, calls, facade, after>>

NextConcurrent ==
    \/ \E t \in Threads : Start(t)
    \/ \E t \in Threads : Step(t)
    \/ \E t \in Threads : Finish(t)
    \/ \E t \in Threads : Take(t)

SpecConcurrent == Init /\ [][NextConcurrent]_vars

Next ==
    \/ MarshalField
    \/ MarshalAction
    \/ MarshalLink
    \/ MarshalEmbeddedLink
    \/ MarshalEntity
    \/ MarshalEmbeddedRepresentation
    \/ FieldMarshalerMarshal
    \/ ActionMarshalerMarshal
    \/ LinkMarshalerMarshal
    \/ EmbeddedLinkMarshalerMarshal
    \/ EntityMarshalerMarshalEntities
    \/ EntityMarshalerMarshal
    \/ EmbeddedRepresentationMarshalerMarshalEntities
    \/ EmbeddedRepresentationMarshalerMarshal
    \/ ParseField
    \/ ParseAction
    \/ ParseLink
    \/ ParseEmbeddedLink
    \/ ParseEntity
    \/ ParseEmbeddedRepresentation
    \/ ActionParserCall
    \/ RoundTripField
    \/ RoundTripAction
    \/ RoundTripLink
    \/ RoundTripEmbeddedLink
    \/ RoundTripEntity
    \/ RoundTripEmbeddedRepresentation
    \/ SubclassMarshal
    \/ SubclassParse
    \/ ReplacedMarshal
    \/ ReplacedParse
    \/ AdjustProperties \/ BaseMarshal
    \/ Return

Spec == Init /\ [][Next]_vars

(***************************************************************************)
(* Properties.                                                             *)
(***************************************************************************)
RoundTrips ==
    {"round_trip_field", "round_trip_action", "round_trip_link", "round_trip_embedded_link",
     "round_trip_entity", "round_trip_embedded_representation"}

\* the operations that marshal sub-entities
SubEntityMarshalers ==
    {"JSONMarshaler.marshal_entity", "JSONMarshaler.marshal_embedded_representation",
     "EntityMarshaler.marshal_entities", "EntityMarshaler.marshal",
     "EmbeddedRepresentationMarshaler.marshal_entities",
     "EmbeddedRepresentationMarshaler.marshal"}

\* C1: for every object O a constructor accepted, parsing what JSONMarshaler
\* marshaled of O succeeds and returns an object equal to O in every
\* attribute, the nested sub-entities in their order and of their kind.
C1_RoundTripEqual ==
    op \in RoundTrips => out.ok /\ out.val = orig.val

\* C2: whenever a sub-entity is marshaled, one that has a 'target' attribute
\* is handed to the facade's marshal_embedded_link and one without it to the
\* facade's marshal_embedded_representation.
C2_DispatchByTarget ==
    op \in SubEntityMarshalers =>
        \A i \in DOMAIN calls :
            calls[i].method = IF HasAttr(calls[i].arg, "target") THEN "marshal_embedded_link"
                              ELSE "marshal_embedded_representation"

\* the parse method of the JSONParser an operation names
ParseMethods ==
    [x \in {"JSONParser.parse_field", "JSONParser.parse_action", "JSONParser.parse_link",
            "JSONParser.parse_embedded_link", "JSONParser.parse_entity",
            "JSONParser.parse_embedded_representation"} |->
        CASE x = "JSONParser.parse_field" -> "parse_field"
          [] x = "JSONParser.parse_action" -> "parse_action"
          [] x = "JSONParser.parse_link" -> "parse_link"
          [] x = "JSONParser.parse_embedded_link" -> "parse_embedded_link"
          [] x = "JSONParser.parse_entity" -> "parse_entity"
          [] OTHER -> "parse_embedded_representation"]

ActionParserOps == {"ActionParser." \o accessor : accessor \in ActionParserAccessors}

ParseOps == DOMAIN ParseMethods \cup ActionParserOps

IsMapping(data) == data.k = "dict"

HasKey(data, key) == IsMapping(data) /\ key \in DOMAIN data.m

\* the 'entities' array of the data
EntitiesArray(data) ==
    IF HasKey(data, "entities") /\ data.m.entities.k = "list" THEN data.m.entities.items
    ELSE <<>>

\* C3: when the 'entities' array is parsed, an item that is a mapping with the
\* key 'href', whatever its value, is parsed with parse_embedded_link, a
\* mapping without it with parse_embedded_representation, an item that is not
\* a mapping makes the parse fail with a ParseError, and the parsed entities
\* have the length and the order of the array.
C3_ParseDispatchByHref ==
    op \in {"JSONParser.parse_entity", "JSONParser.parse_embedded_representation"} =>
        LET items == EntitiesArray(arg)
        IN /\ \A i \in DOMAIN calls :
                /\ i <= Len(items)
                /\ calls[i].arg = items[i]
                /\ IsMapping(items[i])
                /\ calls[i].method = IF HasKey(items[i], "href") THEN "parse_embedded_link"
                                     ELSE "parse_embedded_representation"
           /\ (\E i \in DOMAIN items : ~IsMapping(items[i])) =>
                ~out.ok /\ out.exc = "ValueError"
           /\ out.ok =>
                /\ Len(calls) = Len(items)
                /\ Len(out.val.attrs.entities.items) = Len(items)
                /\ \A i \in DOMAIN items :
                    /\ out.val.attrs.entities.items[i].cls =
                            IF HasKey(items[i], "href") THEN "EmbeddedLink"
                            ELSE "EmbeddedRepresentation"
                    /\ Ok(out.val.attrs.entities.items[i]) =
                            FacadeParse(Default, calls[i].method, items[i])

\* an entity is parsed whose 'entities' hold an embedded link, then an
\* embedded representation
C3_Witness ==
    /\ op = "JSONParser.parse_entity"
    /\ out.ok
    /\ Len(calls) = 2
    /\ calls[1].method = "parse_embedded_link"
    /\ calls[2].method = "parse_embedded_representation"
    /\ out.val.attrs.entities.items[1].cls = "EmbeddedLink"
    /\ out.val.attrs.entities.items[2].cls = "EmbeddedRepresentation"

\* C4: every parse operation called with data that are not a mapping fails
\* with a ParseError (ValueError), never with another kind of error.
C4_NonMappingIsParseError ==
    op \in ParseOps /\ ~IsMapping(arg) => ~out.ok /\ out.exc = "ValueError"

\* the required keys of the data an operation parses
RequiredKeys ==
    [x \in ParseOps |->
        CASE x = "JSONParser.parse_field" -> <<"name">>
          [] x \in {"JSONParser.parse_action", "ActionParser.parse"} -> <<"name", "href">>
          [] x = "ActionParser.parse_name" -> <<"name">>
          [] x = "ActionParser.parse_target" -> <<"href">>
          [] x \in {"JSONParser.parse_link", "JSONParser.parse_embedded_link"} -> <<"rel", "href">>
          [] x = "JSONParser.parse_embedded_representation" -> <<"rel">>
          [] OTHER -> <<>>]

\* what the messages call the data an operation parses
DataNames ==
    [x \in ParseOps |->
        CASE x = "JSONParser.parse_field" -> "Field"
          [] x = "JSONParser.parse_link" -> "Link"
          [] x = "JSONParser.parse_embedded_link" -> "Embedded link"
          [] x = "JSONParser.parse_embedded_representation" -> "Embedded representation"
          [] OTHER -> "Action"]

MissingKeys(x, data) == {key \in Range(RequiredKeys[x]) : ~HasKey(data, key)}

MissingKeyMessage(x, key) == DataNames[x] \o " data do not have required '" \o key \o "' key"

\* C5 as stated: parsing a mapping that lacks a required key fails with a
\* ParseError whose message names the missing key, and returns no object.
C5_MissingKeyNamed ==
    op \in ParseOps /\ IsMapping(arg) /\ MissingKeys(op, arg) # {} =>
        /\ ~out.ok
        /\ out.exc = "ValueError"
        /\ \E key \in MissingKeys(op, arg) : out.msg = MissingKeyMessage(op, key)

\* C5: parsing a mapping that lacks a required key fails with a ParseError and
\* returns no object.  The message names the first missing key, except for
\* Action data that have 'name' and lack 'href': these report an unsupported
\* 'method' (and with ActionParser.parse a 'class' that is not iterable)
\* before the missing 'href'.
C5_MissingKeyFails ==
    op \in ParseOps /\ IsMapping(arg) /\ MissingKeys(op, arg) # {} =>
        LET first == CHOOSE i \in DOMAIN RequiredKeys[op] :
                        /\ RequiredKeys[op][i] \in MissingKeys(op, arg)
                        /\ \A j \in 1..(i - 1) : RequiredKeys[op][j] \notin MissingKeys(op, arg)
            key == RequiredKeys[op][first]
            named == out.msg = MissingKeyMessage(op, key)
            method_given == HasKey(arg, "method")
            method_known == arg.m.method.k = "str" /\ arg.m.method.s \in SUPPORTED_METHODS
            class_given == HasKey(arg, "class")
        IN /\ ~out.ok
           /\ out.exc = "ValueError"
           /\ out.val = None
           /\ CASE op = "JSONParser.parse_action" /\ key = "href" ->
                    IF method_given /\ ~method_known
                    THEN out.msg = "Unsupported method is specified"
                    ELSE named
                [] op = "ActionParser.parse" /\ key = "href" ->
                    IF class_given /\ ~Iter(arg.m.class).ok
                    THEN out.msg = "Failed to iterate over classes from action data"
                    ELSE IF method_given /\ ~method_known
                    THEN out.msg = "Action data contain not supported method"
                    ELSE named
                [] OTHER -> named

\* action data with a supported method lack 'href' and the message names it
C5_Witness ==
    /\ op = "JSONParser.parse_action"
    /\ HasKey(arg, "name")
    /\ HasKey(arg, "method")
    /\ ~HasKey(arg, "href")
    /\ ~out.ok
    /\ out.msg = "Action data do not have required 'href' key"

\* the optional keys of the data an operation parses, with the JSON value
\* of the documented default
OptionalDefaults ==
    [x \in DOMAIN ParseMethods |->
        CASE x = "JSONParser.parse_field" ->
                [class |-> PList(<<>>), type |-> Str("text"), value |-> None, title |-> None]
          [] x = "JSONParser.parse_action" ->
                [class |-> PList(<<>>), method |-> Str("GET"), title |-> None, type |-> None,
                 fields |-> PList(<<>>)]
          [] x \in {"JSONParser.parse_link", "JSONParser.parse_embedded_link"} ->
                [class |-> PList(<<>>), title |-> None, type |-> None]
          [] OTHER ->
                [class |-> PList(<<>>), properties |-> PDict(EmptyMap),
                 entities |-> PList(<<>>), links |-> PList(<<>>), actions |-> PList(<<>>),
                 title |-> None]]

\* the data with every absent optional key set to its default
WithDefaults(x, data) ==
    PDict([key \in DOMAIN data.m \cup DOMAIN OptionalDefaults[x] |->
            IF key \in DOMAIN data.m THEN data.m[key] ELSE OptionalDefaults[x][key]])

\* the attribute of the parsed object a key of the data is stored in
AttributeOf(x, key) ==
    CASE key = "class" -> "classes"
      [] key = "href" -> "target"
      [] key = "rel" -> "relations"
      [] key = "type" /\ x = "JSONParser.parse_field" -> "input_type"
      [] key = "type" /\ x = "JSONParser.parse_action" -> "encoding_type"
      [] key = "type" -> "target_media_type"
      [] OTHER -> key

\* the value an attribute has when its key is absent
DefaultAttribute(x, key) ==
    CASE key \in {"class", "fields", "entities", "links", "actions"} -> PTuple(<<>>)
      [] key = "properties" -> PDict(EmptyMap)
      [] key = "type" /\ x = "JSONParser.parse_field" -> InputTypeMember("TEXT")
      [] key = "method" -> MethodMember("GET")
      [] OTHER -> None

\* the keys whose attribute has a default of its own; the encoding type of an
\* Action follows its fields
DefaultedKeys(x) ==
    DOMAIN OptionalDefaults[x] \ (IF x = "JSONParser.parse_action" THEN {"type"} ELSE {})

\* C6: parsing a mapping that lacks an optional key applies the default
\* instead of failing: the outcome is that of the data with the default given
\* for the key ('class' [], 'title' null, 'value' null, Field 'type' "text",
\* 'method' "GET", Link 'type' null, 'properties' {}, 'fields', 'entities',
\* 'links', 'actions' []), and the parsed object holds the default.
C6_OptionalDefaults ==
    op \in DOMAIN ParseMethods /\ IsMapping(arg) =>
        /\ out = FacadeParse(Default, ParseMethods[op], WithDefaults(op, arg))
        /\ out.ok =>
            \A key \in DefaultedKeys(op) \ DOMAIN arg.m :
                out.val.attrs[AttributeOf(op, key)] = DefaultAttribute(op, key)

\* action data with only the required keys are parsed
C6_Witness ==
    /\ op = "JSONParser.parse_action"
    /\ IsMapping(arg)
    /\ DOMAIN arg.m = {"name", "href"}
    /\ out.ok
    /\ out.val.attrs.method = MethodMember("GET")
    /\ out.val.attrs.fields = PTuple(<<>>)

\* C7: a parsed Action has the encoding type of a non-null 'type'; when 'type'
\* is absent or null it has "application/x-www-form-urlencoded" if it has
\* fields and null if it has none.  No parsed Action has fields together with
\* a null encoding type.
C7_EncodingType ==
    op \in {"JSONParser.parse_action", "ActionParser.parse"} /\ out.ok =>
        LET type == IF HasKey(arg, "type") THEN arg.m.type ELSE None
            fields == out.val.attrs.fields.items
            encoding_type == out.val.attrs.encoding_type
        IN /\ type # None => encoding_type = type
           /\ type = None /\ fields # <<>> =>
                encoding_type = Str("application/x-www-form-urlencoded")
           /\ type = None /\ fields = <<>> => encoding_type = None
           /\ ~(fields # <<>> /\ encoding_type = None)

\* an action is parsed from data with fields and a null 'type'
C7_Witness ==
    /\ op = "JSONParser.parse_action"
    /\ out.ok
    /\ HasKey(arg, "type")
    /\ arg.m.type = None
    /\ out.val.attrs.fields.items # <<>>
    /\ out.val.attrs.encoding_type = Str("application/x-www-form-urlencoded")

\* the data name a method, or an input type, that is not a recognized string
UnsupportedMethod(data) ==
    HasKey(data, "method") /\ ~(data.m.method.k = "str" /\ data.m.method.s \in SUPPORTED_METHODS)

UnsupportedInputType(data) ==
    HasKey(data, "type") /\ ~(data.m.type.k = "str" /\ data.m.type.s \in InputTypeValues)

\* C8: parsing action data whose 'method' is not exactly one of GET, PUT,
\* POST, DELETE, PATCH, or field data whose 'type' is not exactly a recognized
\* input type string, fails with a ParseError and never falls back to the
\* default; the match is case-sensitive and the failure precedes the
\* construction of the object: it is the failure reported whenever the keys
\* read before it are valid, whatever the constructor would do with the rest.
C8_UnsupportedEnumValue ==
    /\ op \in {"JSONParser.parse_action", "ActionParser.parse", "ActionParser.parse_method"}
            /\ UnsupportedMethod(arg) =>
        /\ ~out.ok
        /\ out.exc = "ValueError"
        /\ op = "JSONParser.parse_action" /\ HasKey(arg, "name") =>
                out.msg = "Unsupported method is specified"
        /\ op = "ActionParser.parse_method" => out.msg = "Action data contain not supported method"
        /\ op = "ActionParser.parse" /\ HasKey(arg, "name")
                /\ (HasKey(arg, "class") => Iter(arg.m.class).ok) =>
                out.msg = "Action data contain not supported method"
    /\ op = "JSONParser.parse_field" /\ UnsupportedInputType(arg) =>
        /\ ~out.ok
        /\ out.exc = "ValueError"
        /\ HasKey(arg, "name") => out.msg = "Unsupported input type is specified"

\* action data with the method "get" and classes no Action accepts are
\* rejected for the method
C8_Witness ==
    /\ op = "JSONParser.parse_action"
    /\ HasKey(arg, "name")
    /\ HasKey(arg, "method")
    /\ arg.m.method = Str("get")
    /\ HasKey(arg, "class")
    /\ arg.m.class = PInt(5)
    /\ ~out.ok
    /\ out.msg = "Unsupported method is specified"

\* the attributes marshaled before the method of an action, or the input
\* type of a field, can be marshaled
NameAndClassesMarshal(obj) ==
    HasAttr(obj, "name") /\ HasAttr(obj, "classes") /\ Iter(obj.attrs.classes).ok

\* C9: marshaling an Action whose method, or a Field whose input type, is not
\* a member of the enumeration fails with "Action's method is not supported"
\* ("Field's input type is not supported"): the value is never coerced into a
\* member.  A member is marshaled to its wire string.
C9_MembersOnly ==
    /\ op \in {"JSONMarshaler.marshal_action", "ActionMarshaler.marshal"}
            /\ NameAndClassesMarshal(arg) /\ HasAttr(arg, "method") =>
        IF IsMethod(arg.attrs.method)
        THEN out.ok => out.val.m.method = Str(arg.attrs.method.s)
        ELSE ~out.ok /\ out.msg = "Action's method is not supported"
    /\ op \in {"JSONMarshaler.marshal_field", "FieldMarshaler.marshal"}
            /\ NameAndClassesMarshal(arg) /\ HasAttr(arg, "input_type") =>
        IF IsInputType(arg.attrs.input_type)
        THEN /\ ~(~out.ok /\ out.msg = "Field's input type is not supported")
             /\ out.ok => out.val.m.type = Str(arg.attrs.input_type.s)
        ELSE ~out.ok /\ out.msg = "Field's input type is not supported"

\* the keys of what an operation marshals
MarshaledKeys ==
    [x \in {"JSONMarshaler.marshal_field", "FieldMarshaler.marshal",
            "JSONMarshaler.marshal_action", "ActionMarshaler.marshal",
            "JSONMarshaler.marshal_link", "LinkMarshaler.marshal",
            "JSONMarshaler.marshal_embedded_link", "EmbeddedLinkMarshaler.marshal",
            "JSONMarshaler.marshal_entity", "EntityMarshaler.marshal",
            "JSONMarshaler.marshal_embedded_representation",
            "EmbeddedRepresentationMarshaler.marshal"} |->
        CASE x \in {"JSONMarshaler.marshal_field", "FieldMarshaler.marshal"} ->
                {"name", "class", "type", "value", "title"}
          [] x \in {"JSONMarshaler.marshal_action", "ActionMarshaler.marshal"} ->
                {"name", "class", "method", "href", "title", "type", "fields"}
          [] x \in {"JSONMarshaler.marshal_link", "LinkMarshaler.marshal",
                    "JSONMarshaler.marshal_embedded_link", "EmbeddedLinkMarshaler.marshal"} ->
                {"rel", "class", "href", "title", "type"}
          [] x \in {"JSONMarshaler.marshal_entity", "EntityMarshaler.marshal"} ->
                {"class", "properties", "entities", "links", "actions", "title"}
          [] OTHER ->
                {"rel", "class", "properties", "entities", "links", "actions", "title"}]

ListKeys == {"class", "rel", "fields", "entities", "links", "actions"}

\* C10: what an object marshals to has exactly the keys of its kind, all of
\* them present even when the value is null or empty, and the values of
\* class, rel, fields, entities, links and actions are lists.
C10_MarshaledKeys ==
    op \in DOMAIN MarshaledKeys /\ out.ok =>
        /\ out.val.k = "dict"
        /\ DOMAIN out.val.m = MarshaledKeys[op]
        /\ \A key \in ListKeys \cap MarshaledKeys[op] : out.val.m[key].k = "list"

\* an embedded representation without title and sub-entities is marshaled
C10_Witness ==
    /\ op = "EmbeddedRepresentationMarshaler.marshal"
    /\ out.ok
    /\ out.val.m.title = None
    /\ out.val.m.entities = PList(<<>>)
    /\ out.val.m.rel # PList(<<>>)

\* one attribute a marshaler reads: its name, what the messages call it, and
\* how it is read
Read(attr, what, kind) == [attr |-> attr, what |-> what, kind |-> kind]

FieldReads ==
    <<Read("name", "field's name", "str"), Read("classes", "field's classes", "strs"),
      Read("input_type", "field's input type", "input_type"),
      Read("value", "field's value", "optstr"), Read("title", "field's title", "optstr")>>

ActionReads ==
    <<Read("name", "action's name", "str"), Read("classes", "action's classes", "strs"),
      Read("method", "action's method", "method"),
      Read("target", "action's target", "str"), Read("title", "action's title", "optstr"),
      Read("encoding_type", "action's encoding type", "optstr"),
      Read("fields", "action's fields", "nested")>>

LinkReads ==
    <<Read("relations", "link's relations", "strs"), Read("classes", "link's classes", "strs"),
      Read("target", "link's target", "str"), Read("title", "link's title", "optstr"),
      Read("target_media_type", "link's target media type", "optstr")>>

EmbeddedLinkReads ==
    <<Read("relations", "relations of the embedded link", "strs"),
      Read("classes", "classes of the embedded link", "strs"),
      Read("target", "target of the embedded link", "str"),
      Read("title", "title of the embedded link", "optstr"),
      Read("target_media_type", "target media type of the embedded link", "optstr")>>

EntityReads ==
    <<Read("classes", "entity's classes", "strs"),
      Read("properties", "entity's properties", "properties"),
      Read("entities", "sub entities of the entity", "nested"),
      Read("links", "entity's links", "nested"),
      Read("actions", "entity's actions", "nested"),
      Read("title", "entity's title", "optstr")>>

RepresentationReads ==
    <<Read("relations", "relations of the embedded representation", "strs"),
      Read("classes", "classes of the embedded representation", "strs"),
      Read("properties", "properties of the embedded representation", "properties"),
      Read("entities", "sub entities of the embedded representation", "nested"),
      Read("links", "links of the embedded representation", "nested"),
      Read("actions", "actions of the embedded representation", "nested"),
      Read("title", "title of the embedded representation", "optstr")>>

\* the attributes every marshal operation reads, in the order it reads them
ReadAttributes ==
    [x \in DOMAIN MarshaledKeys \cup {"EntityMarshaler.marshal_entities",
                                      "EmbeddedRepresentationMarshaler.marshal_entities"} |->
        CASE x \in {"JSONMarshaler.marshal_field", "FieldMarshaler.marshal"} -> FieldReads
          [] x \in {"JSONMarshaler.marshal_action", "ActionMarshaler.marshal"} -> ActionReads
          [] x \in {"JSONMarshaler.marshal_link", "LinkMarshaler.marshal"} -> LinkReads
          [] x \in {"JSONMarshaler.marshal_embedded_link", "EmbeddedLinkMarshaler.marshal"} ->
                EmbeddedLinkReads
          [] x \in {"JSONMarshaler.marshal_entity", "EntityMarshaler.marshal"} -> EntityReads
          [] x = "EntityMarshaler.marshal_entities" -> <<EntityReads[3]>>
          [] x = "EmbeddedRepresentationMarshaler.marshal_entities" -> <<RepresentationReads[4]>>
          [] OTHER -> RepresentationReads]

\* the value of an attribute that is present makes its step fail (a nested
\* collection counts as failing unless it is empty)
Faulty(x, kind, v) ==
    CASE kind = "strs" -> ~Iter(v).ok
      [] kind = "input_type" -> ~InputType(StrOf(v)).ok
      [] kind = "method" ->
            IF x = "JSONMarshaler.marshal_action" THEN ~IsMethod(v) ELSE ~Method(StrOf(v)).ok
      [] kind = "properties" -> ~JsonCopy(v).ok
      [] kind = "nested" -> v \notin {PTuple(<<>>), PList(<<>>)}
      [] OTHER -> FALSE

FactoryOperation(instance) ==
    CASE instance.cls = "JSONMarshaler" ->
            {"subclass.marshal_" \o ComponentTypes[i] : i \in
                {i \in DOMAIN ComponentTypes :
                    instance.factory = "create_" \o ComponentTypes[i] \o "_marshaler"}}
      [] instance.cls = "JSONParser" ->
            {"subclass.parse_" \o ComponentTypes[i] : i \in
                {i \in DOMAIN ComponentTypes :
                    instance.factory = "create_" \o ComponentTypes[i] \o "_parser"}}
      [] OTHER -> {}

\* C12: a subclass of JSONMarshaler (JSONParser) that redefines one
\* create_<type>_marshaler (create_<type>_parser) factory returns from
\* marshal_<type> (parse_<type>) exactly what the substituted component's
\* marshal() (parse()) returns; the other five operations are unchanged.
C12_FactoryOverride ==
    facade.factory # "none" =>
        IF op \in FactoryOperation(facade) THEN out = Ok(Custom(facade.factory))
        ELSE \/ /\ facade.cls = "JSONMarshaler"
                /\ \E i \in DOMAIN ComponentTypes :
                    /\ op = "subclass.marshal_" \o ComponentTypes[i]
                    /\ out = FacadeMarshal(Default, "marshal_" \o ComponentTypes[i], arg)
             \/ /\ facade.cls = "JSONParser"
                /\ \E i \in DOMAIN ComponentTypes :
                    /\ op = "subclass.parse_" \o ComponentTypes[i]
                    /\ out = FacadeParse(Default, "parse_" \o ComponentTypes[i], arg)

\* the value of a key of the data, the default when the key is absent
KeyOr(json, key, default) == IF key \in DOMAIN json.m THEN json.m[key] ELSE default

\* what the constructor of lila.core returns for data that hold no nested
\* component to parse
DomainMade(x, json) ==
    CASE x = "JSONParser.parse_link" ->
            Link(json.m.rel, json.m.href, KeyOr(json, "class", PTuple(<<>>)),
                 KeyOr(json, "title", None), KeyOr(json, "type", None))
      [] x = "JSONParser.parse_embedded_link" ->
            EmbeddedLink(json.m.rel, json.m.href, KeyOr(json, "class", PTuple(<<>>)),
                         KeyOr(json, "title", None), KeyOr(json, "type", None))
      [] x = "JSONParser.parse_embedded_representation" ->
            EmbeddedRepresentation(json.m.rel, KeyOr(json, "class", PTuple(<<>>)),
                                   KeyOr(json, "properties", PDict(EmptyMap)), PTuple(<<>>),
                                   PTuple(<<>>), PTuple(<<>>), KeyOr(json, "title", None))
      [] OTHER ->
            Entity(KeyOr(json, "class", PTuple(<<>>)),
                   KeyOr(json, "properties", PDict(EmptyMap)), PTuple(<<>>), PTuple(<<>>),
                   PTuple(<<>>), KeyOr(json, "title", None))

\* the data the constructor is reached with: the required keys are there and
\* there is no nested component to parse
ReachesConstructor(x, json) ==
    /\ IsMapping(json)
    /\ Range(RequiredKeys[x]) \subseteq DOMAIN json.m
    /\ DOMAIN json.m \cap {"entities", "links", "actions"} = {}

\* the fields a replaced parse_field returns for the items of 'fields'
ReplacedFields(parser, json) ==
    [i \in DOMAIN json.m.fields.items |->
        Replacement(parser, "parse_field", json.m.fields.items[i]).val]

\* C13: when the constructor of lila.core rejects the parsed attributes (an
\* embedded link or an embedded representation with an empty 'rel', invalid
\* relations, an action whose fields are of an incompatible type), the parse
\* operation fails with the very error of the constructor, not with an error
\* of its own, and returns no object.
C13_DomainMessageUnchanged ==
    /\ op \in {"JSONParser.parse_link", "JSONParser.parse_embedded_link",
               "JSONParser.parse_entity", "JSONParser.parse_embedded_representation"}
       /\ ReachesConstructor(op, arg)
       /\ ~DomainMade(op, arg).ok
       => out = DomainMade(op, arg)
    /\ op \in {"replaced.JSONParser.parse_action", "replaced.ActionParser.parse"}
       /\ facade.method = "parse_field" /\ facade.raises = "none"
       /\ HasKey(arg, "name") /\ HasKey(arg, "href") /\ HasKey(arg, "fields")
       /\ arg.m.fields.k = "list"
       /\ ~Action(arg.m.name, arg.m.href, PTuple(<<>>), MethodMember("GET"), None,
                  PList(ReplacedFields(facade, arg)), None).ok
       => /\ out = Action(arg.m.name, arg.m.href, PTuple(<<>>), MethodMember("GET"), None,
                          PList(ReplacedFields(facade, arg)), None)
          /\ out.val = None

\* parse_field is replaced by a method that returns no Field: Action rejects
\* the fields and parse_action raises the error of Action
C13_Witness ==
    /\ op = "replaced.JSONParser.parse_action"
    /\ facade.method = "parse_field"
    /\ HasKey(arg, "fields") /\ arg.m.fields.k = "list" /\ Len(arg.m.fields.items) = 2
    /\ out = ValueError("Some of the fields are of incompatible type")

\* an embedded link with an empty 'rel' is rejected by EmbeddedLink
C13_EmptyRelations ==
    /\ op = "JSONParser.parse_embedded_link"
    /\ HasKey(arg, "rel") /\ arg.m.rel = PList(<<>>) /\ HasKey(arg, "href")
    /\ out = ValueError("No relations are passed to create an embedded link")

\* the items of the 'actions' array of the data
ActionsArray(data) ==
    IF HasKey(data, "actions") /\ data.m.actions.k = "list" THEN data.m.actions.items ELSE <<>>

\* two items of the 'actions' array have the same name
DuplicatedNames(data) ==
    \E i, j \in DOMAIN ActionsArray(data) :
        /\ i # j
        /\ HasKey(ActionsArray(data)[i], "name") /\ HasKey(ActionsArray(data)[j], "name")
        /\ StrOf(ActionsArray(data)[i].m.name) = StrOf(ActionsArray(data)[j].m.name)

\* every step before the constructor succeeds: there is nothing else to
\* parse, the relations are given and every action is parsed
OnlyActions(x, data) ==
    /\ IsMapping(data)
    /\ DOMAIN data.m \subseteq {"rel", "actions"}
    /\ x = "JSONParser.parse_embedded_representation" =>
            HasKey(data, "rel") /\ data.m.rel = PList(<<Str("item")>>)
    /\ \A i \in DOMAIN ActionsArray(data) :
            FacadeParse(Default, "parse_action", ActionsArray(data)[i]).ok

\* C14: parsing the data of an entity or of an embedded representation whose
\* 'actions' hold two actions with the same name fails, with the error "Some
\* of the actions have the same name" when the actions themselves are
\* parsed; the actions of every parsed entity or embedded representation
\* have pairwise distinct names.
C14_UniqueActionNames ==
    op \in {"JSONParser.parse_entity", "JSONParser.parse_embedded_representation"} =>
        /\ DuplicatedNames(arg) => ~out.ok /\ out.exc = "ValueError" /\ out.val = None
        /\ DuplicatedNames(arg) /\ OnlyActions(op, arg) =>
                out.msg = "Some of the actions have the same name"
        /\ out.ok =>
            \A i, j \in DOMAIN out.val.attrs.actions.items :
                i # j => out.val.attrs.actions.items[i].attrs.name
                            # out.val.attrs.actions.items[j].attrs.name

\* an entity with the action "a" twice is not parsed
C14_Witness ==
    /\ op = "JSONParser.parse_entity"
    /\ Len(ActionsArray(arg)) = 2
    /\ DuplicatedNames(arg)
    /\ OnlyActions(op, arg)
    /\ out = ValueError("Some of the actions have the same name")

\* an embedded representation with the actions "a" and "b" is parsed
C14_DistinctNames ==
    /\ op = "JSONParser.parse_embedded_representation"
    /\ out.ok
    /\ Len(out.val.attrs.actions.items) = 2

\* the operations that marshal the properties of an entity or of an embedded
\* representation, and what the messages call the properties
PropertiesOf ==
    [x \in {"JSONMarshaler.marshal_entity", "EntityMarshaler.marshal"} |->
        "entity's properties"]
    @@ [x \in {"JSONMarshaler.marshal_embedded_representation",
               "EmbeddedRepresentationMarshaler.marshal"} |->
        "properties of the embedded representation"]

\* the keys of the properties whose value is an opaque object
OpaqueKeys(obj) ==
    IF HasAttr(obj, "properties") /\ obj.attrs.properties.k = "dict"
    THEN {key \in DOMAIN obj.attrs.properties.m : obj.attrs.properties.m[key] = Opaque}
    ELSE {}

\* the messages that name a property key
NamingKey(what, key) ==
    {"Failed to marshal " \o what \o " '" \o key \o "'",
     "Failed to marshal " \o what \o ": " \o key,
     "Failed to marshal property '" \o key \o "'",
     "Unsupported value for property '" \o key \o "'"}

\* C15: marshaling an entity or an embedded representation one of whose
\* property values is not JSON-representable (an opaque object) fails with a
\* MarshalError whose message names the key of that property.
C15_NamesPropertyKey ==
    /\ op \in DOMAIN PropertiesOf
    /\ OpaqueKeys(arg) # {}
    /\ \A attr \in {"classes"} \cup (IF PropertiesOf[op] = "entity's properties" THEN {}
                                     ELSE {"relations"}) :
            HasAttr(arg, attr) /\ Iter(arg.attrs[attr]).ok
    => /\ ~out.ok
       /\ out.exc = "ValueError"
       /\ \E key \in OpaqueKeys(arg) : out.msg \in NamingKey(PropertiesOf[op], key)

\* what the message of the base Marshaler calls a component
Unsupported ==
    [field |-> {"siren fields", "siren field"},
     action |-> {"siren actions", "siren action"},
     link |-> {"siren links", "siren link"},
     embedded_link |-> {"embedded siren links", "embedded siren link",
                        "siren embedded links", "siren embedded link"},
     embedded_representation |-> {"siren embedded representation",
                                  "siren embedded representations",
                                  "embedded siren representation",
                                  "embedded siren representations"},
     entity |-> {"siren entity", "siren entities"}]

\* C16: each of the six operations of the base Marshaler raises
\* NotImplementedError, whatever it is given, with a message that says that
\* the marshaler does not support the component.
C16_NotImplemented ==
    \A i \in DOMAIN ComponentTypes :
        op = "Marshaler.marshal_" \o ComponentTypes[i] =>
            /\ ~out.ok
            /\ out.exc = "NotImplementedError"
            /\ out.msg \in {"Marshaler does not support " \o what :
                                what \in Unsupported[ComponentTypes[i]]}

\* C17: a Link with an empty sequence of relations is neither constructed
\* nor parsed: the relations of a Link are non-empty, as those of an
\* EmbeddedLink and of an EmbeddedRepresentation.
C17_LinkRelationsNonEmpty ==
    /\ op = "JSONParser.parse_link"
       /\ HasKey(arg, "rel") /\ arg.m.rel = PList(<<>>)
       => ~out.ok
    /\ op = "round_trip_link"
       => orig.val.attrs.relations.items # <<>>
    /\ op = "JSONParser.parse_link" /\ out.ok
       => out.val.attrs.relations.items # <<>>

\* the operations whose constructor takes the 'class' of the data as it is
ClassesOps ==
    {"JSONParser.parse_field", "JSONParser.parse_action", "JSONParser.parse_link",
     "JSONParser.parse_embedded_link", "JSONParser.parse_entity",
     "JSONParser.parse_embedded_representation"}

\* C18: adjust_classes, and so every constructor that takes classes, rejects
\* classes that are not iterable with the validation error ValueError
\* "Classes must be iterable with string values" and with no other kind of
\* error; for an iterable it returns the tuple of the string forms of the
\* items, in order.
C18_ClassesValidationError ==
    op \in ClassesOps /\ HasKey(arg, "class") =>
        /\ ~Iter(arg.m.class).ok =>
            /\ ~out.ok
            /\ out.exc = "ValueError"
            /\ DOMAIN arg.m = {"name", "class"} =>
                    out.msg = "Classes must be iterable with string values"
        /\ Iter(arg.m.class).ok /\ out.ok =>
            out.val.attrs.classes =
                PTuple([i \in DOMAIN Iter(arg.m.class).val |-> StrOf(Iter(arg.m.class).val[i])])

\* the collections an operation marshals, and what its messages call them
NestedWhat ==
    [x \in {"JSONMarshaler.marshal_action", "ActionMarshaler.marshal",
            "ActionMarshaler.marshal_fields"} |->
        [fields |-> "action's fields"]]
    @@ [x \in {"JSONMarshaler.marshal_entity", "EntityMarshaler.marshal"} |->
        [entities |-> "sub entities of the entity", links |-> "entity's links",
         actions |-> "entity's actions"]]
    @@ [x \in {"EntityMarshaler.marshal_entities"} |->
        [entities |-> "sub entities of the entity"]]
    @@ [x \in {"JSONMarshaler.marshal_embedded_representation",
               "EmbeddedRepresentationMarshaler.marshal"} |->
        [entities |-> "sub entities of the embedded representation",
         links |-> "links of the embedded representation",
         actions |-> "actions of the embedded representation"]]
    @@ [x \in {"EmbeddedRepresentationMarshaler.marshal_entities"} |->
        [entities |-> "sub entities of the embedded representation"]]

\* the operation called on a facade one of whose methods is replaced
ReplacedOps == {"replaced." \o x : x \in DOMAIN NestedWhat}

Container(x) == CHOOSE y \in DOMAIN NestedWhat : x = "replaced." \o y

\* the facade method an operation hands a sub-entity to
RouteOf(x, sub_entity) ==
    IF x \in {"JSONMarshaler.marshal_entity", "JSONMarshaler.marshal_embedded_representation"}
    THEN JSONMarshaler_sub_entity_route(sub_entity)
    ELSE sub_entity_route(sub_entity)

\* the replaced method is called with the item it raises for: the item is in
\* a collection the operation marshals with that method
Handed(x, marshaler, obj) ==
    /\ marshaler.raises # "none"
    /\ NestedMarshalMethods[marshaler.method] \in DOMAIN NestedWhat[x]
    /\ marshaler.poison \in NestedItems(obj, NestedMarshalMethods[marshaler.method])
    /\ NestedMarshalMethods[marshaler.method] = "entities" =>
            RouteOf(x, marshaler.poison) = marshaler.method

\* the collections of an object other than one are empty
OnlyCollection(obj, attr) ==
    \A other \in {"fields", "links", "actions", "entities"} \ {attr} :
        NestedItems(obj, other) = {}

\* C19: when the facade's marshal_<type> raises for one nested item (a field
\* of an action; a link, an action or a sub-entity of an entity or of an
\* embedded representation), whatever the error, the collection fails with
\* the wrapping error "Failed to marshal <what>" and no partial list is
\* returned, in the component marshalers and in JSONMarshaler alike.
C19_NestedFailureWrapped ==
    op \in ReplacedOps /\ facade.cls = "JSONMarshaler" /\ Handed(Container(op), facade, arg) =>
        /\ ~out.ok
        /\ out.val = None
        /\ out.exc = "ValueError"
        /\ out.msg \in {"Failed to marshal " \o NestedWhat[Container(op)][attr] :
                            attr \in DOMAIN NestedWhat[Container(op)]}
        /\ OnlyCollection(arg, NestedMarshalMethods[facade.method]) =>
                out.msg = "Failed to marshal "
                            \o NestedWhat[Container(op)][NestedMarshalMethods[facade.method]]

\* the items of a collection of an object or of the data, in source order
NestedSeq(obj, attr) ==
    ItemsOf(IF obj.k = "obj" THEN GetAttr(obj, attr) ELSE GetItem(obj, attr))

\* the facade method an item of a collection is handed to
MarshalMethodOf(x, attr, item) ==
    CASE attr = "fields" -> "marshal_field"
      [] attr = "links" -> "marshal_link"
      [] attr = "actions" -> "marshal_action"
      [] OTHER -> RouteOf(x, item)

\* the part of a marshaled result that holds a collection
NestedResult(x, result, attr) ==
    IF x \in {"ActionMarshaler.marshal_fields", "EntityMarshaler.marshal_entities",
              "EmbeddedRepresentationMarshaler.marshal_entities"}
    THEN result.items
    ELSE result.m[attr].items

\* every collection of the result is the sequence of what the facade method
\* returned, item by item; an item of the replaced method is its marker
MarshaledThroughFacade(x, marshaler, obj, result) ==
    \A attr \in DOMAIN NestedWhat[x] :
        /\ DOMAIN NestedResult(x, result, attr) = DOMAIN NestedSeq(obj, attr)
        /\ \A i \in DOMAIN NestedSeq(obj, attr) :
            /\ NestedResult(x, result, attr)[i]
                = FacadeMarshal(marshaler, MarshalMethodOf(x, attr, NestedSeq(obj, attr)[i]),
                                NestedSeq(obj, attr)[i]).val
            /\ MarshalMethodOf(x, attr, NestedSeq(obj, attr)[i]) = marshaler.method =>
                    NestedResult(x, result, attr)[i]
                        = PTuple(<<Str(marshaler.method), NestedSeq(obj, attr)[i]>>)

\* the collections a parse operation parses
NestedParsed ==
    [x \in {"JSONParser.parse_action", "ActionParser.parse", "ActionParser.parse_fields"} |->
        {"fields"}]
    @@ [x \in {"JSONParser.parse_entity", "JSONParser.parse_embedded_representation"} |->
        {"entities", "links", "actions"}]

ReplacedParseOps == {"replaced." \o x : x \in DOMAIN NestedParsed}

ParseContainer(x) == CHOOSE y \in DOMAIN NestedParsed : x = "replaced." \o y

ParseMethodOf(attr, item) ==
    CASE attr = "fields" -> "parse_field"
      [] attr = "links" -> "parse_link"
      [] attr = "actions" -> "parse_action"
      [] OTHER -> sub_entity_parser(item)

\* the part of a parsed result that holds a collection
ParsedResult(x, result, attr) ==
    IF x = "ActionParser.parse_fields" THEN result.items ELSE result.attrs[attr].items

ParsedThroughFacade(x, parser, data, result) ==
    \A attr \in NestedParsed[x] :
        /\ DOMAIN ParsedResult(x, result, attr) = DOMAIN NestedSeq(data, attr)
        /\ \A i \in DOMAIN NestedSeq(data, attr) :
            /\ ParsedResult(x, result, attr)[i]
                = FacadeParse(parser, ParseMethodOf(attr, NestedSeq(data, attr)[i]),
                              NestedSeq(data, attr)[i]).val
            /\ ParseMethodOf(attr, NestedSeq(data, attr)[i]) = parser.method =>
                    ParsedResult(x, result, attr)[i]
                        = PTuple(<<Str(parser.method), NestedSeq(data, attr)[i]>>)

\* C20: the nested steps of the component marshalers, of ActionParser and of
\* JSONMarshaler / JSONParser go through the facade: a collection of the
\* result is exactly the sequence of the results of the facade's marshal_<type>
\* or parse_<type>, one per item and in source order, so an item handed to a
\* replaced facade method appears as what the replacement returned.
C20_NestedThroughFacade ==
    /\ op \in ReplacedOps /\ out.ok =>
            MarshaledThroughFacade(Container(op), facade, arg, out.val)
    /\ op \in ReplacedParseOps /\ out.ok =>
            ParsedThroughFacade(ParseContainer(op), facade, arg, out.val)

\* fields marshaled by a replaced marshal_field: two results, in order
C20_Witness ==
    /\ op = "replaced.ActionMarshaler.marshal_fields"
    /\ facade.method = "marshal_field"
    /\ out.ok
    /\ Len(NestedSeq(arg, "fields")) = 2
    /\ NestedSeq(arg, "fields")[1] # NestedSeq(arg, "fields")[2]
    /\ out.val.items = <<PTuple(<<Str("marshal_field"), NestedSeq(arg, "fields")[1]>>),
                         PTuple(<<Str("marshal_field"), NestedSeq(arg, "fields")[2]>>)>>

\* the default component marshaler of a type, run with a facade
ComponentMarshal(type, obj, marshaler) ==
    CASE type = "field" -> FieldMarshaler_marshal(obj)
      [] type = "action" -> ActionMarshaler_marshal(obj, marshaler)
      [] type = "link" -> LinkMarshaler_marshal(obj)
      [] type = "embedded_link" -> EmbeddedLinkMarshaler_marshal(obj)
      [] type = "entity" -> EntityMarshaler_marshal(obj, marshaler)
      [] OTHER -> EmbeddedRepresentationMarshaler_marshal(obj, marshaler)

\* the operations of the facade, called on JSONMarshaler() or on an instance
\* with a replaced method
FacadeMarshalOps(type) ==
    {"JSONMarshaler.marshal_" \o type, "replaced.JSONMarshaler.marshal_" \o type}

\* C21: each marshal_<type> of JSONMarshaler gives the outcome of the default
\* component marshaler of that type run with the same facade: the same
\* mapping on success, an error with the same message on failure.
C21_FacadeEqualsComponent ==
    \A i \in DOMAIN ComponentTypes :
        op \in FacadeMarshalOps(ComponentTypes[i]) =>
            LET Same(component) ==
                    /\ out.ok = component.ok
                    /\ out.val = component.val
                    /\ out.msg = component.msg
            IN Same(ComponentMarshal(ComponentTypes[i], arg, facade))

\* C22: JSONParser.parse_action gives the outcome of ActionParser(data,
\* parser).parse() run with the same facade: an Action with the same
\* attributes on success, an error with the same message on failure.
C22_ParseActionEqualsActionParser ==
    op \in {"JSONParser.parse_action", "replaced.JSONParser.parse_action"} =>
        LET Same(component) ==
                /\ out.ok = component.ok
                /\ out.val = component.val
                /\ out.exc = component.exc
                /\ out.msg = component.msg
        IN Same(ActionParser_parse(arg, facade))

\* the data with one key set to a value
WithKey(data, key, value) ==
    PDict([k \in DOMAIN data.m \cup {key} |-> IF k = key THEN value ELSE data.m[k]])

\* the parse operations that parse a collection of the data, by name
CollectionParsers ==
    [x \in {"JSONParser.parse_action", "ActionParser.parse", "ActionParser.parse_fields"} |->
        {"fields"}]
    @@ [x \in {"JSONParser.parse_entity", "JSONParser.parse_embedded_representation"} |->
        {"entities", "links", "actions"}]

\* the collection under a key is what makes the parsing fail: it is there,
\* and the data parse once it is replaced by an empty array
FailsBy(x, data, key) ==
    /\ HasKey(data, key)
    /\ ContainerParse(x, Default, WithKey(data, key, PList(<<>>))).ok

\* C23: a nested collection ('fields' of an action; 'entities', 'links',
\* 'actions' of an entity or an embedded representation) whose value is not
\* iterable fails with another message than the same collection holding an
\* item that fails to parse.
C23_NonIterableDistinct ==
    \A x \in DOMAIN CollectionParsers :
        \A key \in CollectionParsers[x] :
            op = x /\ FailsBy(x, arg, key) /\ ~Iter(arg.m[key]).ok =>
                LET Distinct(item_failure) ==
                        /\ ~out.ok
                        /\ ~item_failure.ok
                        /\ out.msg # item_failure.msg
                IN Distinct(ContainerParse(x, Default, WithKey(arg, key, PList(<<None>>))))

\* the attributes of an action read by the marshalers, in the order of
\* ActionKeys
ActionAttributes ==
    <<"name", "classes", "method", "target", "title", "encoding_type", "fields">>

\* the four operations on an action and what names its parts in the input
ActionOperations ==
    [x \in {"JSONParser.parse_action", "ActionParser.parse"} |-> ActionKeys]
    @@ [x \in {"JSONMarshaler.marshal_action", "ActionMarshaler.marshal"} |-> ActionAttributes]

ActionOperation(x, input) ==
    CASE x = "JSONParser.parse_action" -> JSONParser_parse_action(Default, input)
      [] x = "ActionParser.parse" -> ActionParser_parse(input, Default)
      [] x = "JSONMarshaler.marshal_action" -> JSONMarshaler_marshal_action(Default, input)
      [] OTHER -> ActionMarshaler_marshal(input, Default)

\* the parts of an input: the keys of a mapping, the attributes of an object
PartsOf(input) == IF input.k = "obj" THEN input.attrs ELSE input.m

Parted(input, parts) ==
    IF input.k = "obj" THEN Obj(input.cls, parts) ELSE PDict(parts)

\* an input every part of which the operation accepts
ValidActionInput ==
    [x \in DOMAIN ActionOperations |->
        IF x \in {"JSONParser.parse_action", "ActionParser.parse"}
        THEN PDict([name |-> Str("a"), href |-> Str("/t")])
        ELSE CHOOSE action \in ActionObjects \cup Actions :
                /\ ActionOperation(x, action).ok
                /\ DOMAIN action.attrs = Range(ActionAttributes)
                /\ action.attrs.fields.items = <<>>]

\* the valid input with one part taken from another input: its value there,
\* or its absence
OnlyPart(x, input, part) ==
    Parted(input,
           [p \in (DOMAIN PartsOf(ValidActionInput[x]) \ {part})
                    \cup ({part} \cap DOMAIN PartsOf(input)) |->
                IF p = part THEN PartsOf(input)[p] ELSE PartsOf(ValidActionInput[x])[p]])

\* the index of the first part, in key order, that the operation rejects on
\* its own, or 0
FirstInvalid(x, input) ==
    FirstFailure([i \in DOMAIN ActionOperations[x] |->
                    ActionOperation(x, OnlyPart(x, input, ActionOperations[x][i]))])

\* C24: when several attributes of an action or of action data are invalid,
\* the call fails with the error of the invalid attribute that comes first in
\* the key order name, class, method, href, title, type, fields, and returns
\* no partial result.
C24_FirstInKeyOrder ==
    \A x \in DOMAIN ActionOperations :
        op = x /\ arg.k \in {"obj", "dict"} /\ FirstInvalid(x, arg) # 0 =>
            LET First(alone) ==
                    /\ ~out.ok
                    /\ out.val = None
                    /\ out.exc = alone.exc
                    /\ out.msg = alone.msg
            IN First(ActionOperation(x, OnlyPart(x, arg, ActionOperations[x][FirstInvalid(x, arg)])))

\* the operations that marshal the properties of an entity or of an embedded
\* representation, and the message of properties that cannot be marshaled
PropertiesMarshalers ==
    [x \in {"JSONMarshaler.marshal_entity", "EntityMarshaler.marshal"} |->
        "Failed to marshal entity's properties"]
    @@ [x \in {"JSONMarshaler.marshal_embedded_representation",
               "EmbeddedRepresentationMarshaler.marshal"} |->
        "Failed to marshal properties of the embedded representation"]

\* C25: properties given as a mapping or as an iterable of key-value pairs,
\* with values that can be written as JSON, are accepted and marshaled as the
\* mapping from the string form of each key to its value with tuples turned
\* into arrays, e.g. {1: "v", "list": (1, "2")} as {"1": "v", "list": [1, "2"]}.
C25_PropertiesNormalized ==
    op \in DOMAIN PropertiesMarshalers /\ HasAttr(arg, "properties") =>
        LET Normalized(mapping) ==
                mapping.ok =>
                    /\ out.ok => out.val.m.properties = mapping.val
                    /\ ~out.ok => out.msg # PropertiesMarshalers[op]
        IN Normalized(adjust_properties(arg.attrs.properties))

\* the values JSON has: null, numbers, strings, arrays of them and mappings
\* with string keys
RECURSIVE IsJson(_)
IsJson(v) ==
    CASE v.k \in {"none", "str", "int"} -> TRUE
      [] v.k = "list" -> \A i \in DOMAIN v.items : IsJson(v.items[i])
      [] v.k = "dict" -> \A key \in DOMAIN v.m : IsJson(v.m[key])
      [] OTHER -> FALSE

\* C26: what adjust_properties returns for an input it accepts is a mapping
\* with string keys whose values are JSON values, and adjust_properties maps
\* that result to an equal mapping.
C26_AdjustIdempotent ==
    op = "adjust_properties" /\ out.ok =>
        /\ out.val.k = "dict"
        /\ IsJson(out.val)
        /\ wire = out

\* a dictionary with an integer key and a tuple among its values is adjusted
\* to another mapping, and that mapping to itself
C26_Witness ==
    /\ op = "adjust_properties"
    /\ arg = PyDict(<<<<PInt(1), Str("v")>>, <<Str("list"), PTuple(<<PInt(1), Str("2")>>)>>>>)
    /\ out = Ok(PDict([x \in {"1", "list"} |->
                    IF x = "1" THEN Str("v") ELSE PList(<<PInt(1), Str("2")>>)]))
    /\ wire = out

\* the calls of the marshal and parse methods on an argument
MarshalOrParse(name) ==
    \E prefix \in {"JSONMarshaler.marshal_", "JSONParser.parse_", "replaced.JSONMarshaler.",
                   "replaced.JSONParser.", "subclass.marshal_", "subclass.parse_"},
       type \in {"field", "action", "link", "embedded_link", "entity",
                 "embedded_representation", "marshal_action", "marshal_entity",
                 "marshal_embedded_representation", "parse_action", "parse_entity",
                 "parse_embedded_representation"} :
        name = prefix \o type

C28_AsAlone ==
    \A t \in Threads :
        frames[t].done => frames[t].result = ActionOperation(frames[t].x, frames[t].input)

\* a call of ActionParser.parse returned an Action, having run statements
\* while a call with other data was in the middle of its own
C28_Witness ==
    \E t \in Threads, u \in Threads :
        /\ t # u
        /\ frames[t].x = "ActionParser.parse" /\ frames[t].done /\ frames[t].result.ok
        /\ frames[t].met
        /\ frames[u].x = "ActionParser.parse" /\ Running(frames[u]) /\ frames[u].values # <<>>
        /\ frames[u].input # frames[t].input

\* the operations that marshal one sub-entity, and the parse method for what
\* they return
SubEntityKinds ==
    [x \in {"JSONMarshaler.marshal_embedded_link", "EmbeddedLinkMarshaler.marshal"} |->
        "parse_embedded_link"]
    @@ [x \in {"JSONMarshaler.marshal_embedded_representation",
               "EmbeddedRepresentationMarshaler.marshal"} |->
        "parse_embedded_representation"]

\* the parse method of the kind a facade method marshals
KindOf(method) ==
    IF method = "marshal_embedded_link" THEN "parse_embedded_link"
    ELSE "parse_embedded_representation"

\* the operations of JSONMarshaler() that marshal sub-entities
SubEntityContainers ==
    {x \in DOMAIN NestedWhat : "entities" \in DOMAIN NestedWhat[x]}

\* C29: a marshaled embedded link always has the key 'href', a marshaled
\* embedded representation never has it, so JSONParser._parse_sub_entity hands
\* every marshaled sub-entity to the parse method of the kind it was
\* marshaled as.
C29_KindKept ==
    /\ op \in DOMAIN SubEntityKinds /\ out.ok =>
        /\ HasKey(out.val, "href") <=> SubEntityKinds[op] = "parse_embedded_link"
        /\ sub_entity_parser(out.val) = SubEntityKinds[op]
    /\ op \in SubEntityContainers /\ out.ok =>
        \A i \in DOMAIN NestedSeq(arg, "entities") :
            sub_entity_parser(NestedResult(op, out.val, "entities")[i])
                = KindOf(RouteOf(op, NestedSeq(arg, "entities")[i]))

\* an entity marshaled with an embedded link and an embedded representation
\* among its sub-entities
C29_Witness ==
    /\ op = "JSONMarshaler.marshal_entity"
    /\ out.ok
    /\ \E i, j \in DOMAIN NestedSeq(arg, "entities") :
        /\ HasKey(out.val.m.entities.items[i], "href")
        /\ ~HasKey(out.val.m.entities.items[j], "href")
        /\ HasKey(out.val.m.entities.items[j], "rel")

\* C30: one ActionParser.parse() call invokes the facade's parse_field once
\* for each item of the 'fields' array, in the order of the array, whether
\* 'type' has a value, is null or is absent.
C30_ParseFieldOncePerItem ==
    op = "ActionParser.parse" /\ out.ok =>
        calls = [i \in DOMAIN NestedSeq(arg, "fields") |->
                    [method |-> "parse_field", arg |-> NestedSeq(arg, "fields")[i]]]

====
